---------------------------- MODULE Spec2Model ----------------------------
(***************************************************************************)
(* The Fabric blockchain connector of FireFly                              *)
(* (internal/blockchain/fabric/fabric.go): the event loop and its batch    *)
(* dispatcher, the BatchPin decoding, the callback fan-out and the         *)
(* ConfigureContract / TerminateContract lifecycle.                        *)
(*                                                                         *)
(* Strings the code inspects character by character (hex fields, the       *)
(* namespace with its reserved prefix) are tuples of one-character         *)
(* strings. Strings the code only compares are TLA+ strings.               *)
(***************************************************************************)
EXTENDS Integers, Sequences, FiniteSets, TLC

VARIABLES
    conf,             \* contractConf / contractConfSize / deprecated chaincode key
    inited,           \* outcome of Init: "no", "ok", "err"
    topic,            \* f.topic
    wsconn,           \* f.wsconn: "nil", "new", "connected", "closed"
    closedCh,         \* f.closed: "nil", "open", "closed"
    started,          \* Start() has been called
    ctxDone,          \* f.ctx is cancelled
    listeners,        \* f.callbacks.listeners, in registration order
    pc,               \* position of the eventLoop goroutine
    rcvCount,         \* number of frames the loop has taken from Receive()
    cur,              \* the frame the loop is working on
    idx,              \* handleMessageBatch: position i of the range loop
    batchErr,         \* handleMessageBatch's return for cur: "none", "nil", "err"
    calls,            \* fan-out invocations made for cur, in order
    lastCall,         \* <<frame number, position>> of the latest invocation
    connSent,         \* frames afterConnect handed to wsconn.Send, in order
    sent,             \* frames the loop handed to wsconn.Send in this iteration
    fireflyContract,  \* the runtime tuple guarded by fireflyContract.mux
    mux,              \* holder of fireflyContract.mux, or "free"
    contracts,        \* the core.FireFlyContracts record the caller passes in
    tpc,              \* per calling task: position inside Configure/TerminateContract
    tloc,             \* per calling task: locals of the call
    tret,             \* per calling task: what the last call returned and touched
    apiCalls,         \* number of management-API requests made so far
    connector,        \* event streams and subscriptions held by the connector
    fnIn,             \* arguments of the function being exercised on its own
    fnOut             \* what that function returned for fnIn

vars == <<conf, inited, topic, wsconn, closedCh, started, ctxDone, listeners,
          pc, rcvCount, cur, idx, batchErr, calls, lastCall, connSent, sent,
          fireflyContract, mux, contracts, tpc, tloc, tret, apiCalls,
          connector, fnIn, fnOut>>

\* what the loop's iteration works on
iterVars == <<cur, idx, batchErr, calls, sent>>
loopVars == <<rcvCount, cur, idx, batchErr, calls, lastCall, sent>>
contractVars == <<fireflyContract, mux, contracts, tpc, tloc, tret, apiCalls>>

(***************************************************************************)
(* Bounds of the model.                                                    *)
(***************************************************************************)
MaxFrames == 2       \* frames the transport delivers
MaxBatch == 2        \* messages in one batch frame
MaxOps == 3          \* lifecycle calls the host makes in all
MaxConnects == 3     \* connections the transport dials in all

\* the listeners the host may register, in this order
ListenerIds == <<"l1", "l2">>

(***************************************************************************)
(* Program constants.                                                      *)
(***************************************************************************)
UUIDLen == 16
Bytes32Len == 32

\* no function exercised on its own
NoCall == [fn |-> "none"]
NoResult == [done |-> FALSE]

Range(s) == {s[i] : i \in 1..Len(s)}
Rep(c, n) == [i \in 1..n |-> c]

\* "firefly:"
FireFlyActionPrefix == <<"f", "i", "r", "e", "f", "l", "y", ":">>
broadcastBatchEventName == "BatchPin"

\* strings.HasPrefix
HasPrefix(s, p) == Len(s) >= Len(p) /\ SubSeq(s, 1, Len(p)) = p

\* strings.TrimPrefix
TrimPrefix(s, p) == IF HasPrefix(s, p) THEN SubSeq(s, Len(p) + 1, Len(s)) ELSE s

HexDigits == <<"0", "1", "2", "3", "4", "5", "6", "7",
               "8", "9", "a", "b", "c", "d", "e", "f">>
IsHexDigit(c) == c \in Range(HexDigits)
HexVal(c) == CHOOSE v \in 0..15 : HexDigits[v + 1] = c

\* encoding/hex DecodeString: an error for an odd length or a non-hex character
HexDecodeString(s) ==
    IF Len(s) % 2 = 0 /\ \A i \in 1..Len(s) : IsHexDigit(s[i])
    THEN [ok |-> TRUE,
          bytes |-> [i \in 1..(Len(s) \div 2) |->
                        16 * HexVal(s[2 * i - 1]) + HexVal(s[2 * i])]]
    ELSE [ok |-> FALSE, bytes |-> <<>>]

\* encoding/hex EncodeToString
HexEncodeToString(b) ==
    [i \in 1..(2 * Len(b)) |->
        IF i % 2 = 1 THEN HexDigits[(b[(i + 1) \div 2] \div 16) + 1]
                     ELSE HexDigits[(b[i \div 2] % 16) + 1]]

\* fftypes.Bytes32.UnmarshalText as handleBatchPinEvent uses it: an optional 0x,
\* then exactly 32 bytes of hex
Bytes32UnmarshalText(s) ==
    LET d == HexDecodeString(TrimPrefix(s, <<"0", "x">>))
    IN  IF d.ok /\ Len(d.bytes) = Bytes32Len THEN d ELSE [ok |-> FALSE, bytes |-> <<>>]


(***************************************************************************)
(* The inbound messages the model draws from. Each is what the connector   *)
(* puts into a batch frame: a JSON value that is an object or not, with    *)
(* subId, eventName and a base64 JSON payload carrying the BatchPin fields.*)
(***************************************************************************)
Sub0 == "sb-0"          \* the subscription of deployment 0
Sub1 == "sb-1"          \* the subscription of deployment 1
SubCustom == "sb-c"     \* a custom contract listener's subscription

Hex0x(s) == <<"0", "x">> \o s
UUIDsGood == Hex0x(Rep("a", 2 * UUIDLen) \o Rep("b", 2 * UUIDLen))
UUIDsShort == Hex0x(Rep("a", 2 * Bytes32Len - 2))
HashGood == Hex0x(Rep("c", 2 * Bytes32Len))
HashBad == Hex0x(Rep("c", 2 * Bytes32Len - 1) \o <<"!">>)
CtxA == Hex0x(Rep("1", 2 * Bytes32Len))
CtxB == Hex0x(Rep("2", 2 * Bytes32Len))
NsData == <<"n", "s", "1">>
NsAction == FireFlyActionPrefix \o <<"t", "e", "r", "m">>

PinOutput == [signer |-> "signer1", namespace |-> NsData, uuids |-> UUIDsGood,
              batchHash |-> HashGood, payloadRef |-> "ref1",
              contexts |-> <<CtxB, CtxA, CtxA>>]
NoOutput == [signer |-> "", namespace |-> <<>>, uuids |-> <<>>,
             batchHash |-> <<>>, payloadRef |-> "", contexts |-> <<>>]

ObjMsg(sub, name, payload, out) ==
    [obj |-> TRUE, subId |-> sub, eventName |-> name, payload |-> payload,
     output |-> out]

MsgIds == {"pin", "action", "badPayload", "badUUIDs", "badHash", "badCtx",
           "unknown", "custom", "customBad", "noSub", "nonObj"}

MsgDef(id) ==
    CASE id = "pin" -> ObjMsg(Sub0, "BatchPin", "ok", PinOutput)
      [] id = "action" ->
            ObjMsg(Sub0, "BatchPin", "ok",
                   [PinOutput EXCEPT !.namespace = NsAction, !.uuids = UUIDsShort,
                                     !.batchHash = HashBad, !.contexts = <<>>])
      [] id = "badPayload" -> ObjMsg(Sub0, "BatchPin", "badbase64", NoOutput)
      [] id = "badUUIDs" ->
            ObjMsg(Sub0, "BatchPin", "ok", [PinOutput EXCEPT !.uuids = UUIDsShort])
      [] id = "badHash" ->
            ObjMsg(Sub0, "BatchPin", "ok", [PinOutput EXCEPT !.batchHash = HashBad])
      [] id = "badCtx" ->
            ObjMsg(Sub0, "BatchPin", "ok",
                   [PinOutput EXCEPT !.contexts = <<CtxA, HashBad>>])
      [] id = "unknown" -> ObjMsg(Sub0, "Other", "ok", PinOutput)
      [] id = "custom" ->
            ObjMsg(SubCustom, "BatchPin", "ok",
                   [PinOutput EXCEPT !.namespace = NsAction])
      [] id = "customBad" -> ObjMsg(SubCustom, "Changed", "notobject", NoOutput)
      [] id = "noSub" -> ObjMsg("", "BatchPin", "ok", PinOutput)
      [] id = "nonObj" ->
            [obj |-> FALSE, subId |-> "", eventName |-> "", payload |-> "",
             output |-> NoOutput]

MsgTable == [id \in MsgIds |-> MsgDef(id)]
Msg(id) == MsgTable[id]

(***************************************************************************)
(* The inbound frames: unparseable bytes, a JSON value that is neither     *)
(* array nor object, a receipt (object) and a message batch (array).       *)
(***************************************************************************)
Frame(kind, msgs, requestId, type) ==
    [kind |-> kind, msgs |-> msgs, requestId |-> requestId, type |-> type]
NoFrame == Frame("none", <<>>, "", "")
Batches == UNION {[1..n -> MsgIds] : n \in 0..MaxBatch}
Frames ==
    {Frame("badjson", <<>>, "", ""), Frame("other", <<>>, "", "")}
    \cup {Frame("receipt", <<>>, r, t) :
            r \in {"", "op1"}, t \in {"", "TransactionSuccess", "Error"}}
    \cup {Frame("batch", b, "", "") : b \in Batches}

(***************************************************************************)
(* Decoding and routing of one message.                                    *)
(***************************************************************************)
NoDispatch == [dispatch |-> FALSE, kind |-> "none", arg |-> <<>>]
Dispatch(kind, arg) == [dispatch |-> TRUE, kind |-> kind, arg |-> arg]

\* decodeJSONPayload: nil unless the payload is base64 of a JSON object
decodeJSONPayload(m) ==
    IF m.payload = "ok" THEN [ok |-> TRUE, output |-> m.output]
                        ELSE [ok |-> FALSE, output |-> NoOutput]

\* parseBlockchainEvent: nil when the payload does not decode
parseBlockchainEvent(m) ==
    LET payload == decodeJSONPayload(m)
    IN  IF ~payload.ok
        THEN [ok |-> FALSE, Name |-> "", Output |-> NoOutput]
        ELSE [ok |-> TRUE, Name |-> m.eventName, Output |-> payload.output]

\* the contexts loop of handleBatchPinEvent: every hash must unmarshal
\* DecodeContexts with the hashes collected in reverse order
DecodeContextsReversed(sContexts) ==
    IF \A i \in 1..Len(sContexts) : Bytes32UnmarshalText(sContexts[i]).ok
    THEN [ok |-> TRUE,
          hashes |-> [i \in 1..Len(sContexts) |->
                        Bytes32UnmarshalText(sContexts[Len(sContexts) + 1 - i]).bytes]]
    ELSE [ok |-> FALSE, hashes |-> <<>>]

DecodeContexts(sContexts) ==
    IF \A i \in 1..Len(sContexts) : Bytes32UnmarshalText(sContexts[i]).ok
    THEN [ok |-> TRUE,
          hashes |-> [i \in 1..Len(sContexts) |->
                        Bytes32UnmarshalText(sContexts[i]).bytes]]
    ELSE [ok |-> FALSE, hashes |-> <<>>]

\* handleBatchPinEvent without the operator-action check
handleBatchPinEventNoAction(m) ==
    LET event == parseBlockchainEvent(m)
        signer == event.Output.signer
        nsOrAction == event.Output.namespace
        hexUUIDs == HexDecodeString(TrimPrefix(event.Output.uuids, <<"0", "x">>))
        batchHash == Bytes32UnmarshalText(event.Output.batchHash)
        contexts == DecodeContexts(event.Output.contexts)
    IN  IF ~event.ok THEN NoDispatch
        ELSE IF ~hexUUIDs.ok \/ Len(hexUUIDs.bytes) # Bytes32Len THEN NoDispatch
        ELSE IF ~batchHash.ok THEN NoDispatch
        ELSE IF ~contexts.ok THEN NoDispatch
        ELSE Dispatch("BatchPinComplete",
                      [Namespace |-> nsOrAction,
                       TransactionID |-> SubSeq(hexUUIDs.bytes, 1, UUIDLen),
                       BatchID |-> SubSeq(hexUUIDs.bytes, UUIDLen + 1, Bytes32Len),
                       BatchHash |-> batchHash.bytes,
                       BatchPayloadRef |-> event.Output.payloadRef,
                       Contexts |-> contexts.hashes,
                       signer |-> signer])

\* a handleBatchPinEvent that decodes uuids, batchHash and contexts before
\* it looks for an operator action
handleBatchPinEventDecodeFirst(m) ==
    LET event == parseBlockchainEvent(m)
        signer == event.Output.signer
        nsOrAction == event.Output.namespace
        hexUUIDs == HexDecodeString(TrimPrefix(event.Output.uuids, <<"0", "x">>))
        batchHash == Bytes32UnmarshalText(event.Output.batchHash)
        contexts == DecodeContexts(event.Output.contexts)
    IN  IF ~event.ok THEN NoDispatch
        ELSE IF ~hexUUIDs.ok \/ Len(hexUUIDs.bytes) # Bytes32Len THEN NoDispatch
        ELSE IF ~batchHash.ok THEN NoDispatch
        ELSE IF ~contexts.ok THEN NoDispatch
        ELSE IF HasPrefix(nsOrAction, FireFlyActionPrefix)
        THEN Dispatch("BlockchainNetworkAction",
                      [action |-> SubSeq(nsOrAction, Len(FireFlyActionPrefix) + 1,
                                         Len(nsOrAction)),
                       signer |-> signer])
        ELSE Dispatch("BatchPinComplete",
                      [Namespace |-> nsOrAction,
                       TransactionID |-> SubSeq(hexUUIDs.bytes, 1, UUIDLen),
                       BatchID |-> SubSeq(hexUUIDs.bytes, UUIDLen + 1, Bytes32Len),
                       BatchHash |-> batchHash.bytes,
                       BatchPayloadRef |-> event.Output.payloadRef,
                       Contexts |-> contexts.hashes,
                       signer |-> signer])

handleBatchPinEvent(m) ==
    LET event == parseBlockchainEvent(m)
        signer == event.Output.signer
        nsOrAction == event.Output.namespace
        hexUUIDs == HexDecodeString(TrimPrefix(event.Output.uuids, <<"0", "x">>))
        batchHash == Bytes32UnmarshalText(event.Output.batchHash)
        contexts == DecodeContexts(event.Output.contexts)
    IN  IF ~event.ok THEN NoDispatch
        ELSE IF HasPrefix(nsOrAction, FireFlyActionPrefix)
        THEN Dispatch("BlockchainNetworkAction",
                      [action |-> SubSeq(nsOrAction, Len(FireFlyActionPrefix) + 1,
                                         Len(nsOrAction)),
                       signer |-> signer])
        ELSE IF ~hexUUIDs.ok \/ Len(hexUUIDs.bytes) # Bytes32Len THEN NoDispatch
        ELSE IF ~batchHash.ok THEN NoDispatch
        ELSE IF ~contexts.ok THEN NoDispatch
        ELSE Dispatch("BatchPinComplete",
                      [Namespace |-> nsOrAction,
                       TransactionID |-> SubSeq(hexUUIDs.bytes, 1, UUIDLen),
                       BatchID |-> SubSeq(hexUUIDs.bytes, UUIDLen + 1, Bytes32Len),
                       BatchHash |-> batchHash.bytes,
                       BatchPayloadRef |-> event.Output.payloadRef,
                       Contexts |-> contexts.hashes,
                       signer |-> signer])

handleContractEvent(m) ==
    LET event == parseBlockchainEvent(m)
    IN  IF ~event.ok THEN NoDispatch
        ELSE Dispatch("BlockchainEvent",
                      [Subscription |-> m.subId, Name |-> event.Name])

\* a range loop that routes on the event name before the subscription
RouteMessageByName(m, fireflySub) ==
    IF m.eventName = broadcastBatchEventName THEN handleBatchPinEvent(m)
    ELSE IF m.subId = fireflySub THEN NoDispatch
    ELSE handleContractEvent(m)

\* a range loop that hands an event of another name on the active
\* subscription to the contract event handler
RouteMessageOtherNameAsContractEvent(m, fireflySub) ==
    IF m.subId = fireflySub /\ m.eventName = broadcastBatchEventName
    THEN handleBatchPinEvent(m)
    ELSE handleContractEvent(m)

\* the body of handleMessageBatch's range loop for an object message, given the
\* subscription read under the lock
RouteMessage(m, fireflySub) ==
    IF m.subId = fireflySub
    THEN IF m.eventName = broadcastBatchEventName THEN handleBatchPinEvent(m)
                                                  ELSE NoDispatch
    ELSE handleContractEvent(m)

\* RouteMessage, tabulated over the messages and subscriptions of the model
RouteTable ==
    [id \in MsgIds, sub \in {"", Sub0, Sub1} |-> RouteMessage(Msg(id), sub)]

(***************************************************************************)
(* Configuration, the runtime tuple and the contract record.               *)
(***************************************************************************)
Slot(chaincode, fromBlock) == [chaincode |-> chaincode, fromBlock |-> fromBlock]
Conf(slots, deprecated) ==
    [size |-> Len(slots), slots |-> slots, deprecated |-> deprecated]
ConfTwo == Conf(<<Slot("cc0", "0"), Slot("cc1", "5")>>, "")
ConfOne == Conf(<<Slot("cc0", "0")>>, "")
ConfEmptySlot == Conf(<<Slot("cc0", "0"), Slot("", "5")>>, "")
ConfDeprecated == Conf(<<>>, "cc0")
ConfNone == Conf(<<>>, "")
ConfChoices == {ConfTwo, ConfOne, ConfEmptySlot, ConfDeprecated, ConfNone}

Tuple(chaincode, fromBlock, version, sub) ==
    [chaincode |-> chaincode, fromBlock |-> fromBlock,
     networkVersion |-> version, subscription |-> sub]
EmptyTuple == Tuple("", "", 0, "")

Info(chaincode, fromBlock, sub) ==
    [chaincode |-> chaincode, fromBlock |-> fromBlock, subscription |-> sub]
NoInfo == Info("", "", "")
ContractInfo(index, info, finalEvent) ==
    [Index |-> index, Info |-> info, FinalEvent |-> finalEvent]
NewContracts == [Active |-> ContractInfo(0, NoInfo, ""), Terminated |-> <<>>]

Tasks == {"t1", "t2"}
NoLocals == [op |-> "none", chaincode |-> "", fromBlock |-> "", sub |-> "",
             version |-> 0, termChaincode |-> "", termProtocolID |-> "",
             fireflyChaincode |-> "", touched |-> FALSE]
NoReturn == [op |-> "none", err |-> "none", ignored |-> FALSE, touched |-> FALSE,
             count |-> 0, value |-> 0]

(***************************************************************************)
(* Init, RegisterListener, Start and the transport.                        *)
(***************************************************************************)
SendRec(type, tp, ok) == [type |-> type, topic |-> tp, ok |-> ok]

\* an Init that also connects the transport
PluginInitConnects(url, tp, wsFails, streamFails) ==
    /\ inited = "no"
    /\ topic' = IF url = "" THEN topic ELSE tp
    /\ wsconn' = IF url = "" \/ tp = "" \/ wsFails THEN wsconn ELSE "connected"
    /\ apiCalls' = IF url = "" \/ tp = "" \/ wsFails THEN apiCalls ELSE apiCalls + 1
    /\ IF url = "" \/ tp = "" \/ wsFails \/ streamFails
       THEN /\ inited' = "err"
            /\ UNCHANGED <<closedCh, pc>>
       ELSE /\ inited' = "ok"
            /\ closedCh' = "open"
            /\ pc' = "select"
    /\ UNCHANGED <<fnIn, fnOut, connector, conf, started, ctxDone, listeners, connSent>>
    /\ UNCHANGED loopVars
    /\ UNCHANGED <<fireflyContract, mux, contracts, tpc, tloc, tret>>

\* an Init that launches the event loop as soon as the websocket client
\* exists, before the event stream is ensured
PluginInitLoopFirst(url, tp, wsFails, streamFails) ==
    /\ inited = "no"
    /\ topic' = IF url = "" THEN topic ELSE tp
    /\ wsconn' = IF url = "" \/ tp = "" \/ wsFails THEN wsconn ELSE "new"
    /\ apiCalls' = IF url = "" \/ tp = "" \/ wsFails THEN apiCalls ELSE apiCalls + 1
    /\ inited' = IF url = "" \/ tp = "" \/ wsFails \/ streamFails THEN "err" ELSE "ok"
    /\ IF url = "" \/ tp = "" \/ wsFails
       THEN UNCHANGED <<closedCh, pc>>
       ELSE /\ closedCh' = "open"
            /\ pc' = "select"
    /\ UNCHANGED <<fnIn, fnOut, connector, conf, started, ctxDone, listeners, connSent>>
    /\ UNCHANGED loopVars
    /\ UNCHANGED <<fireflyContract, mux, contracts, tpc, tloc, tret>>

\* Init: the checks in order; the event loop is launched last
PluginInit(url, tp, wsFails, streamFails) ==
    /\ inited = "no"
    /\ topic' = IF url = "" THEN topic ELSE tp
    /\ wsconn' = IF url = "" \/ tp = "" \/ wsFails THEN wsconn ELSE "new"
    /\ apiCalls' = IF url = "" \/ tp = "" \/ wsFails THEN apiCalls ELSE apiCalls + 1
    /\ IF url = "" \/ tp = "" \/ wsFails \/ streamFails
       THEN /\ inited' = "err"
            /\ UNCHANGED <<closedCh, pc>>
       ELSE /\ inited' = "ok"
            /\ closedCh' = "open"
            /\ pc' = "select"
    /\ UNCHANGED <<fnIn, fnOut, connector, conf, started, ctxDone, listeners, connSent>>
    /\ UNCHANGED loopVars
    /\ UNCHANGED <<fireflyContract, mux, contracts, tpc, tloc, tret>>

\* RegisterListener, which the host calls before Start
RegisterListener ==
    /\ ~started
    /\ Len(listeners) < Len(ListenerIds)
    /\ listeners' = Append(listeners, ListenerIds[Len(listeners) + 1])
    /\ UNCHANGED <<fnIn, fnOut, connector, conf, inited, topic, wsconn, closedCh, started, ctxDone, pc,
                   connSent>>
    /\ UNCHANGED loopVars
    /\ UNCHANGED contractVars

\* an afterConnect that goes on to listenreplies whatever listen returned
afterConnectIgnoresError(tp, listenOK, repliesOK) ==
    [sends |-> <<SendRec("listen", tp, listenOK),
                 SendRec("listenreplies", "", repliesOK)>>,
     err |-> ~repliesOK]

\* afterConnect: listen, and listenreplies only if listen was sent
afterConnect(tp, listenOK, repliesOK) ==
    IF listenOK
    THEN [sends |-> <<SendRec("listen", tp, TRUE),
                      SendRec("listenreplies", "", repliesOK)>>,
          err |-> ~repliesOK]
    ELSE [sends |-> <<SendRec("listen", tp, FALSE)>>, err |-> TRUE]

\* Start: wsconn.Connect(), which runs afterConnect on the new connection
Start(connectOK, listenOK, repliesOK) ==
    /\ inited = "ok"
    /\ ~started
    /\ wsconn = "new"
    /\ started' = TRUE
    /\ LET hook == afterConnect(topic, listenOK, repliesOK)
       IN  IF connectOK
           THEN /\ connSent' = connSent \o hook.sends
                /\ wsconn' = IF hook.err THEN wsconn ELSE "connected"
           ELSE UNCHANGED <<connSent, wsconn>>
    /\ UNCHANGED <<fnIn, fnOut, connector, conf, inited, topic, closedCh, ctxDone, listeners, pc>>
    /\ UNCHANGED loopVars
    /\ UNCHANGED contractVars

\* Start called although Init returned an error after it had created the
\* websocket client: wsconn.Connect() as in Start
StartAfterFailedInit(connectOK, listenOK, repliesOK) ==
    /\ inited = "err"
    /\ ~started
    /\ wsconn = "new"
    /\ started' = TRUE
    /\ LET hook == afterConnect(topic, listenOK, repliesOK)
       IN  IF connectOK
           THEN /\ connSent' = connSent \o hook.sends
                /\ wsconn' = IF hook.err THEN wsconn ELSE "connected"
           ELSE UNCHANGED <<connSent, wsconn>>
    /\ UNCHANGED <<fnIn, fnOut, connector, conf, inited, topic, closedCh, ctxDone, listeners, pc>>
    /\ UNCHANGED loopVars
    /\ UNCHANGED contractVars

\* the hooks run so far: afterConnect starts each with one listen command
Hooks == Cardinality({k \in 1..Len(connSent) : connSent[k].type = "listen"})

\* the established connection drops; the client keeps the receive channel
\* open and reconnects by itself
ConnectionLost ==
    /\ wsconn = "connected"
    /\ ~ctxDone
    /\ wsconn' = "lost"
    /\ UNCHANGED <<fnIn, fnOut, connector, conf, inited, topic, closedCh, started, ctxDone, listeners,
                   pc, connSent>>
    /\ UNCHANGED loopVars
    /\ UNCHANGED contractVars

\* the client dials again and runs the hook given to wsclient.New on the
\* new connection; a connection whose hook failed is dropped and retried
Reconnect(listenOK, repliesOK) ==
    /\ wsconn = "lost"
    /\ ~ctxDone
    /\ Hooks < MaxConnects
    /\ LET hook == afterConnect(topic, listenOK, repliesOK)
       IN  /\ connSent' = connSent \o hook.sends
           /\ wsconn' = IF hook.err THEN wsconn ELSE "connected"
    /\ UNCHANGED <<fnIn, fnOut, connector, conf, inited, topic, closedCh, started, ctxDone, listeners,
                   pc>>
    /\ UNCHANGED loopVars
    /\ UNCHANGED contractVars

\* the host cancels the context given to Init
CancelCtx ==
    /\ ~ctxDone
    /\ ctxDone' = TRUE
    /\ UNCHANGED <<fnIn, fnOut, connector, conf, inited, topic, wsconn, closedCh, started, listeners, pc,
                   connSent>>
    /\ UNCHANGED loopVars
    /\ UNCHANGED contractVars

(***************************************************************************)
(* ConfigureContract and TerminateContract, statement by statement, as     *)
(* run by the calling tasks on one core.FireFlyContracts record.           *)
(***************************************************************************)
ResolveOK(chaincode, fromBlock) ==
    [ok |-> TRUE, chaincode |-> chaincode, fromBlock |-> fromBlock, err |-> "nil"]
ResolveErr(err) == [ok |-> FALSE, chaincode |-> "", fromBlock |-> "", err |-> err]

\* a resolution that takes the legacy setting at whatever index is asked for
resolveLegacyAtAnyIndex(c, contractIndex) ==
    IF c.size > 0
    THEN IF contractIndex >= c.size THEN ResolveErr("invalidIndex")
         ELSE IF c.slots[contractIndex + 1].chaincode = ""
              THEN ResolveErr("missingConfig")
              ELSE ResolveOK(c.slots[contractIndex + 1].chaincode,
                             c.slots[contractIndex + 1].fromBlock)
    ELSE IF c.deprecated # "" THEN ResolveOK(c.deprecated, "oldest")
                              ELSE ResolveErr("missingConfig")

resolveFireFlyContract(c, contractIndex) ==
    IF c.size > 0 \/ contractIndex > 0
    THEN IF contractIndex >= c.size THEN ResolveErr("invalidIndex")
         ELSE IF c.slots[contractIndex + 1].chaincode = ""
              THEN ResolveErr("missingConfig")
              ELSE ResolveOK(c.slots[contractIndex + 1].chaincode,
                             c.slots[contractIndex + 1].fromBlock)
    ELSE IF c.deprecated # "" THEN ResolveOK(c.deprecated, "oldest")
                              ELSE ResolveErr("missingConfig")

\* a termination event: Info["chaincodeId"] and ProtocolID
TermEvent(chaincodeId, protocolID) ==
    [chaincodeId |-> chaincodeId, ProtocolID |-> protocolID]
TermEvents == {TermEvent("cc0", "p1"), TermEvent("cc1", "p2"), TermEvent("", "p3")}

\* lifecycle calls made so far, returned or still running
RECURSIVE SumCount(_)
SumCount(ts) ==
    IF ts = {} THEN 0
    ELSE LET t == CHOOSE x \in ts : TRUE
         IN  tret[t].count + (IF tpc[t] = "idle" THEN 0 ELSE 1) + SumCount(ts \ {t})
OpsStarted == SumCount(Tasks)

\* the call returns err to its caller
Return(t, err, ignored) ==
    /\ tpc' = [tpc EXCEPT ![t] = "idle"]
    /\ tret' = [tret EXCEPT ![t] = [op |-> tloc[t].op, err |-> err,
                                    ignored |-> ignored,
                                    touched |-> tloc[t].touched,
                                    count |-> tret[t].count + 1,
                                    value |-> 0]]
    /\ tloc' = [tloc EXCEPT ![t] = NoLocals]

\* the host calls ConfigureContract(ctx, contracts)
CallConfigureContract(t) ==
    /\ inited = "ok"
    /\ tpc[t] = "idle"
    /\ OpsStarted < MaxOps
    /\ tpc' = [tpc EXCEPT ![t] = "resolve"]
    /\ tloc' = [tloc EXCEPT ![t] = [NoLocals EXCEPT !.op = "configure"]]
    /\ UNCHANGED <<fnIn, fnOut, connector, conf, inited, topic, wsconn, closedCh, started, ctxDone,
                   listeners, pc, connSent>>
    /\ UNCHANGED loopVars
    /\ UNCHANGED <<fireflyContract, mux, contracts, tret, apiCalls>>

\* the host calls TerminateContract(ctx, contracts, termination)
CallTerminateContract(t, termination) ==
    /\ inited = "ok"
    /\ tpc[t] = "idle"
    /\ OpsStarted < MaxOps
    /\ tpc' = [tpc EXCEPT ![t] = "termLock"]
    /\ tloc' = [tloc EXCEPT ![t] =
                    [NoLocals EXCEPT !.op = "terminate",
                                     !.termChaincode = termination.chaincodeId,
                                     !.termProtocolID = termination.ProtocolID]]
    /\ UNCHANGED <<fnIn, fnOut, connector, conf, inited, topic, wsconn, closedCh, started, ctxDone,
                   listeners, pc, connSent>>
    /\ UNCHANGED loopVars
    /\ UNCHANGED <<fireflyContract, mux, contracts, tret, apiCalls>>

\* TerminateContract: f.fireflyContract.mux.Lock()
TerminateLock(t) ==
    /\ tpc[t] = "termLock"
    /\ mux = "free"
    /\ mux' = t
    /\ tpc' = [tpc EXCEPT ![t] = "termRead"]
    /\ UNCHANGED <<fnIn, fnOut, connector, conf, inited, topic, wsconn, closedCh, started, ctxDone,
                   listeners, pc, connSent>>
    /\ UNCHANGED loopVars
    /\ UNCHANGED <<fireflyContract, contracts, tloc, tret, apiCalls>>

\* TerminateContract: fireflyChaincode := f.fireflyContract.chaincode; Unlock()
TerminateRead(t) ==
    /\ tpc[t] = "termRead"
    /\ mux = t
    /\ tloc' = [tloc EXCEPT ![t].fireflyChaincode = fireflyContract.chaincode]
    /\ mux' = "free"
    /\ tpc' = [tpc EXCEPT ![t] = "termCheck"]
    /\ UNCHANGED <<fnIn, fnOut, connector, conf, inited, topic, wsconn, closedCh, started, ctxDone,
                   listeners, pc, connSent>>
    /\ UNCHANGED loopVars
    /\ UNCHANGED <<fireflyContract, contracts, tret, apiCalls>>

\* a TerminateContract that processes the event whatever contract it names
TerminateCheckAlways(t) ==
    /\ tpc[t] = "termCheck"
    /\ tpc' = [tpc EXCEPT ![t] = "termFinal"]
    /\ UNCHANGED <<tloc, tret>>
    /\ UNCHANGED <<fnIn, fnOut, connector, conf, inited, topic, wsconn, closedCh, started, ctxDone,
                   listeners, pc, connSent>>
    /\ UNCHANGED loopVars
    /\ UNCHANGED <<fireflyContract, mux, contracts, apiCalls>>

\* TerminateContract: if chaincode != fireflyChaincode { return nil }
TerminateCheck(t) ==
    /\ tpc[t] = "termCheck"
    /\ IF tloc[t].termChaincode # tloc[t].fireflyChaincode
       THEN Return(t, "nil", TRUE)
       ELSE /\ tpc' = [tpc EXCEPT ![t] = "termFinal"]
            /\ UNCHANGED <<tloc, tret>>
    /\ UNCHANGED <<fnIn, fnOut, connector, conf, inited, topic, wsconn, closedCh, started, ctxDone,
                   listeners, pc, connSent>>
    /\ UNCHANGED loopVars
    /\ UNCHANGED <<fireflyContract, mux, contracts, apiCalls>>

\* a TerminateContract that puts the active record at the head of Terminated
TerminateRecordAtHead(t) ==
    /\ tpc[t] = "termFinal"
    /\ LET final == [contracts.Active EXCEPT !.FinalEvent = tloc[t].termProtocolID]
       IN  contracts' = [Active |-> ContractInfo(final.Index + 1, NoInfo, ""),
                         Terminated |-> <<final>> \o contracts.Terminated]
    /\ tloc' = [tloc EXCEPT ![t].touched = TRUE]
    /\ tpc' = [tpc EXCEPT ![t] = "resolve"]
    /\ UNCHANGED <<fnIn, fnOut, connector, conf, inited, topic, wsconn, closedCh, started, ctxDone,
                   listeners, pc, connSent>>
    /\ UNCHANGED loopVars
    /\ UNCHANGED <<fireflyContract, mux, tret, apiCalls>>

\* a TerminateContract that appends the active record without its final event
TerminateRecordNoFinal(t) ==
    /\ tpc[t] = "termFinal"
    /\ contracts' = [Active |-> ContractInfo(contracts.Active.Index + 1, NoInfo, ""),
                     Terminated |-> Append(contracts.Terminated, contracts.Active)]
    /\ tloc' = [tloc EXCEPT ![t].touched = TRUE]
    /\ tpc' = [tpc EXCEPT ![t] = "resolve"]
    /\ UNCHANGED <<fnIn, fnOut, connector, conf, inited, topic, wsconn, closedCh, started, ctxDone,
                   listeners, pc, connSent>>
    /\ UNCHANGED loopVars
    /\ UNCHANGED <<fireflyContract, mux, tret, apiCalls>>

\* TerminateContract: FinalEvent, append to Terminated, the new Active record
TerminateRecord(t) ==
    /\ tpc[t] = "termFinal"
    /\ LET final == [contracts.Active EXCEPT !.FinalEvent = tloc[t].termProtocolID]
       IN  contracts' = [Active |-> ContractInfo(final.Index + 1, NoInfo, ""),
                         Terminated |-> Append(contracts.Terminated, final)]
    /\ tloc' = [tloc EXCEPT ![t].touched = TRUE]
    /\ tpc' = [tpc EXCEPT ![t] = "resolve"]
    /\ UNCHANGED <<fnIn, fnOut, connector, conf, inited, topic, wsconn, closedCh, started, ctxDone,
                   listeners, pc, connSent>>
    /\ UNCHANGED loopVars
    /\ UNCHANGED <<fireflyContract, mux, tret, apiCalls>>

\* ConfigureContract: resolveFireFlyContract(ctx, contracts.Active.Index)
ConfigureResolve(t) ==
    /\ tpc[t] = "resolve"
    /\ LET r == resolveFireFlyContract(conf, contracts.Active.Index)
       IN  IF r.ok
           THEN /\ tloc' = [tloc EXCEPT ![t].chaincode = r.chaincode,
                                        ![t].fromBlock = r.fromBlock]
                /\ tpc' = [tpc EXCEPT ![t] = "ensureSub"]
                /\ UNCHANGED tret
           ELSE Return(t, r.err, FALSE)
    /\ UNCHANGED <<fnIn, fnOut, connector, conf, inited, topic, wsconn, closedCh, started, ctxDone,
                   listeners, pc, connSent>>
    /\ UNCHANGED loopVars
    /\ UNCHANGED <<fireflyContract, mux, contracts, apiCalls>>

\* a ConfigureContract that records the subscription in Active.Info as soon
\* as it has one
ConfigureEnsureSubRecordsInfo(t, ok, subID) ==
    /\ tpc[t] = "ensureSub"
    /\ apiCalls' = apiCalls + 1
    /\ IF ok
       THEN /\ tloc' = [tloc EXCEPT ![t].sub = subID, ![t].touched = TRUE]
            /\ tpc' = [tpc EXCEPT ![t] = "version"]
            /\ contracts' = [contracts EXCEPT !.Active.Info =
                                Info(tloc[t].chaincode, tloc[t].fromBlock, subID)]
            /\ UNCHANGED tret
       ELSE /\ tpc' = [tpc EXCEPT ![t] = "idle"]
            /\ tret' = [tret EXCEPT ![t] = [op |-> tloc[t].op, err |-> "subErr",
                                            ignored |-> FALSE, touched |-> TRUE,
                                            count |-> tret[t].count + 1,
                                            value |-> 0]]
            /\ tloc' = [tloc EXCEPT ![t] = NoLocals]
            /\ UNCHANGED contracts
    /\ UNCHANGED <<fnIn, fnOut, connector, conf, inited, topic, wsconn, closedCh, started, ctxDone,
                   listeners, pc, connSent>>
    /\ UNCHANGED loopVars
    /\ UNCHANGED <<fireflyContract, mux>>

\* ConfigureContract: f.streams.ensureFireFlySubscription(...), a request to
\* the connector that answers with a subscription or an error
ConfigureEnsureSub(t, ok, subID) ==
    /\ tpc[t] = "ensureSub"
    /\ apiCalls' = apiCalls + 1
    /\ IF ok
       THEN /\ tloc' = [tloc EXCEPT ![t].sub = subID, ![t].touched = TRUE]
            /\ tpc' = [tpc EXCEPT ![t] = "version"]
            /\ UNCHANGED tret
       ELSE /\ tpc' = [tpc EXCEPT ![t] = "idle"]
            /\ tret' = [tret EXCEPT ![t] = [op |-> tloc[t].op, err |-> "subErr",
                                            ignored |-> FALSE, touched |-> TRUE,
                                            count |-> tret[t].count + 1,
                                            value |-> 0]]
            /\ tloc' = [tloc EXCEPT ![t] = NoLocals]
    /\ UNCHANGED <<fnIn, fnOut, connector, conf, inited, topic, wsconn, closedCh, started, ctxDone,
                   listeners, pc, connSent>>
    /\ UNCHANGED loopVars
    /\ UNCHANGED <<fireflyContract, mux, contracts>>

\* ConfigureContract: f.getNetworkVersion(ctx, chaincode); "ok" carries the
\* reported value, "notfound" is read as version 1
ConfigureVersion(t, outcome, reported) ==
    /\ tpc[t] = "version"
    /\ apiCalls' = apiCalls + 1
    /\ IF outcome = "err"
       THEN Return(t, "versionErr", FALSE)
       ELSE /\ tloc' = [tloc EXCEPT ![t].version =
                            IF outcome = "notfound" THEN 1 ELSE reported]
            /\ tpc' = [tpc EXCEPT ![t] = "confLock"]
            /\ UNCHANGED tret
    /\ UNCHANGED <<fnIn, fnOut, connector, conf, inited, topic, wsconn, closedCh, started, ctxDone,
                   listeners, pc, connSent>>
    /\ UNCHANGED loopVars
    /\ UNCHANGED <<fireflyContract, mux, contracts>>

\* The same query with the connector's answer spelled out.  An error text
\* is a sequence of words; an answer is a failed request (the error of the
\* HTTP client), a non-success response carrying the connector's error
\* text, or a success response with its body.
networkVersionMethodName == "NetworkVersion"
NotFoundError == <<"Function", networkVersionMethodName, "not", "found">>
RESTErrPrefix == <<"Error", "from", "fabconnect:">>
ErrorTexts ==
    {NotFoundError,
     <<"chaincode", "response", "500,">> \o NotFoundError \o <<"in", "cc0">>,
     <<"Function", "Other", "not", "found">>,
     <<"Function", networkVersionMethodName, "not">>,
     <<"not", "found">>,
     <<"connection", "refused">>,
     <<>>}
ReportedVersions == {1, 2, 3}
QueryAnswer(kind, text, body, result) ==
    [kind |-> kind, text |-> text, body |-> body, result |-> result]
QueryAnswers ==
    {QueryAnswer(k, x, "", 0) : k \in {"requestFailed", "status500"},
                                x \in ErrorTexts}
    \cup {QueryAnswer("ok", <<>>, "number", v) : v \in ReportedVersions}
    \cup {QueryAnswer("ok", <<>>, b, 0) : b \in {"badjson", "string"}}

\* strings.Contains, on words
Contains(text, part) ==
    \E i \in 1..(Len(text) - Len(part) + 1) :
       SubSeq(text, i, i + Len(part) - 1) = part

\* queryContractMethod: nil on a success response, else the wrapped error,
\* whose text ends with the connector's error text or the client's error
queryContractMethod(answer) ==
    IF answer.kind = "ok" THEN [ok |-> TRUE, errText |-> <<>>]
    ELSE [ok |-> FALSE, errText |-> RESTErrPrefix \o answer.text]

VersionResult(version, err) == [version |-> version, err |-> err]

\* a getNetworkVersion without the default for deployments that have no
\* NetworkVersion function
getNetworkVersionNoDefault(answer) ==
    LET res == queryContractMethod(answer)
    IN  IF ~res.ok THEN VersionResult(0, "err")
        ELSE IF answer.body = "badjson" THEN VersionResult(0, "err")
        ELSE IF answer.body = "number" THEN VersionResult(answer.result, "nil")
        ELSE VersionResult(0, "panic")

\* getNetworkVersion: 1 when the error text contains "Function
\* NetworkVersion not found", the error otherwise; on success the result of
\* the body, an unmarshal error, or the panic of the failed type assertion
\* when the result is not a number
getNetworkVersion(answer) ==
    LET res == queryContractMethod(answer)
    IN  IF ~res.ok
        THEN IF Contains(res.errText, NotFoundError) THEN VersionResult(1, "nil")
                                                     ELSE VersionResult(0, "err")
        ELSE IF answer.body = "badjson" THEN VersionResult(0, "err")
        ELSE IF answer.body = "number" THEN VersionResult(answer.result, "nil")
        ELSE VersionResult(0, "panic")

\* ConfigureContract: f.getNetworkVersion(ctx, chaincode) with the answer
\* the connector gives
ConfigureQueryVersion(t, answer) ==
    /\ tpc[t] = "version"
    /\ apiCalls' = apiCalls + 1
    /\ fnIn' = [fn |-> "getNetworkVersion", answer |-> answer]
    /\ LET v == getNetworkVersion(answer)
       IN  IF v.err = "nil"
           THEN /\ tloc' = [tloc EXCEPT ![t].version = v.version]
                /\ tpc' = [tpc EXCEPT ![t] = "confLock"]
                /\ UNCHANGED tret
           ELSE Return(t, IF v.err = "panic" THEN "panic" ELSE "versionErr", FALSE)
    /\ UNCHANGED <<fnOut, connector, conf, inited, topic, wsconn, closedCh, started, ctxDone,
                   listeners, pc, connSent>>
    /\ UNCHANGED loopVars
    /\ UNCHANGED <<fireflyContract, mux, contracts>>

\* a ConfigureContract that goes to its assignments without the lock
ConfigureNoLock(t) ==
    /\ tpc[t] = "confLock"
    /\ tpc' = [tpc EXCEPT ![t] = "confWrite"]
    /\ UNCHANGED <<fnIn, fnOut, connector, conf, inited, topic, wsconn, closedCh, started, ctxDone,
                   listeners, pc, connSent>>
    /\ UNCHANGED loopVars
    /\ UNCHANGED <<fireflyContract, mux, contracts, tloc, tret, apiCalls>>

\* ConfigureContract: f.fireflyContract.mux.Lock()
ConfigureLock(t) ==
    /\ tpc[t] = "confLock"
    /\ mux = "free"
    /\ mux' = t
    /\ tpc' = [tpc EXCEPT ![t] = "confWrite"]
    /\ UNCHANGED <<fnIn, fnOut, connector, conf, inited, topic, wsconn, closedCh, started, ctxDone,
                   listeners, pc, connSent>>
    /\ UNCHANGED loopVars
    /\ UNCHANGED <<fireflyContract, contracts, tloc, tret, apiCalls>>

\* ConfigureContract: the four assignments to the tuple, then Unlock()
ConfigureWrite(t) ==
    /\ tpc[t] = "confWrite"
    /\ mux = t
    /\ fireflyContract' = Tuple(tloc[t].chaincode, tloc[t].fromBlock,
                                tloc[t].version, tloc[t].sub)
    /\ mux' = "free"
    /\ tpc' = [tpc EXCEPT ![t] = "confInfo"]
    /\ UNCHANGED <<fnIn, fnOut, connector, conf, inited, topic, wsconn, closedCh, started, ctxDone,
                   listeners, pc, connSent>>
    /\ UNCHANGED loopVars
    /\ UNCHANGED <<contracts, tloc, tret, apiCalls>>

\* The same write, one assignment at a time: ConfigureLock is followed by
\* the four assignments and the Unlock, each a step of its own.

\* ConfigureContract: f.fireflyContract.chaincode = chaincode
ConfigureAssignChaincode(t) ==
    /\ tpc[t] = "confWrite"
    /\ fireflyContract' = [fireflyContract EXCEPT !.chaincode = tloc[t].chaincode]
    /\ tpc' = [tpc EXCEPT ![t] = "confFromBlock"]
    /\ UNCHANGED <<fnIn, fnOut, connector, conf, inited, topic, wsconn, closedCh, started, ctxDone,
                   listeners, pc, connSent>>
    /\ UNCHANGED loopVars
    /\ UNCHANGED <<mux, contracts, tloc, tret, apiCalls>>

\* ConfigureContract: f.fireflyContract.fromBlock = fromBlock
ConfigureAssignFromBlock(t) ==
    /\ tpc[t] = "confFromBlock"
    /\ fireflyContract' = [fireflyContract EXCEPT !.fromBlock = tloc[t].fromBlock]
    /\ tpc' = [tpc EXCEPT ![t] = "confVersion"]
    /\ UNCHANGED <<fnIn, fnOut, connector, conf, inited, topic, wsconn, closedCh, started, ctxDone,
                   listeners, pc, connSent>>
    /\ UNCHANGED loopVars
    /\ UNCHANGED <<mux, contracts, tloc, tret, apiCalls>>

\* ConfigureContract: f.fireflyContract.networkVersion = version
ConfigureAssignVersion(t) ==
    /\ tpc[t] = "confVersion"
    /\ fireflyContract' = [fireflyContract EXCEPT !.networkVersion = tloc[t].version]
    /\ tpc' = [tpc EXCEPT ![t] = "confSub"]
    /\ UNCHANGED <<fnIn, fnOut, connector, conf, inited, topic, wsconn, closedCh, started, ctxDone,
                   listeners, pc, connSent>>
    /\ UNCHANGED loopVars
    /\ UNCHANGED <<mux, contracts, tloc, tret, apiCalls>>

\* ConfigureContract: f.fireflyContract.subscription = sub.ID
ConfigureAssignSubscription(t) ==
    /\ tpc[t] = "confSub"
    /\ fireflyContract' = [fireflyContract EXCEPT !.subscription = tloc[t].sub]
    /\ tpc' = [tpc EXCEPT ![t] = "confUnlock"]
    /\ UNCHANGED <<fnIn, fnOut, connector, conf, inited, topic, wsconn, closedCh, started, ctxDone,
                   listeners, pc, connSent>>
    /\ UNCHANGED loopVars
    /\ UNCHANGED <<mux, contracts, tloc, tret, apiCalls>>

\* ConfigureContract: f.fireflyContract.mux.Unlock()
ConfigureUnlock(t) ==
    /\ tpc[t] = "confUnlock"
    /\ mux' = "free"
    /\ tpc' = [tpc EXCEPT ![t] = "confInfo"]
    /\ UNCHANGED <<fnIn, fnOut, connector, conf, inited, topic, wsconn, closedCh, started, ctxDone,
                   listeners, pc, connSent>>
    /\ UNCHANGED loopVars
    /\ UNCHANGED <<fireflyContract, contracts, tloc, tret, apiCalls>>

\* ConfigureContract: contracts.Active.Info = {...}; return nil
ConfigureInfo(t) ==
    /\ tpc[t] = "confInfo"
    /\ contracts' = [contracts EXCEPT !.Active.Info =
                        Info(tloc[t].chaincode, tloc[t].fromBlock, tloc[t].sub)]
    /\ Return(t, "nil", FALSE)
    /\ UNCHANGED <<fnIn, fnOut, connector, conf, inited, topic, wsconn, closedCh, started, ctxDone,
                   listeners, pc, connSent>>
    /\ UNCHANGED loopVars
    /\ UNCHANGED <<fireflyContract, mux, apiCalls>>

\* the host calls SubmitBatchPin or SubmitNetworkAction: the pin input is
\* built from the arguments alone
CallSubmit(t, op) ==
    /\ inited = "ok"
    /\ tpc[t] = "idle"
    /\ OpsStarted < MaxOps
    /\ tpc' = [tpc EXCEPT ![t] = "subLock"]
    /\ tloc' = [tloc EXCEPT ![t] = [NoLocals EXCEPT !.op = op]]
    /\ UNCHANGED <<fnIn, fnOut, connector, conf, inited, topic, wsconn, closedCh, started, ctxDone,
                   listeners, pc, connSent>>
    /\ UNCHANGED loopVars
    /\ UNCHANGED <<fireflyContract, mux, contracts, tret, apiCalls>>

\* SubmitBatchPin / SubmitNetworkAction: f.fireflyContract.mux.Lock()
SubmitLock(t) ==
    /\ tpc[t] = "subLock"
    /\ mux = "free"
    /\ mux' = t
    /\ tpc' = [tpc EXCEPT ![t] = "subRead"]
    /\ UNCHANGED <<fnIn, fnOut, connector, conf, inited, topic, wsconn, closedCh, started, ctxDone,
                   listeners, pc, connSent>>
    /\ UNCHANGED loopVars
    /\ UNCHANGED <<fireflyContract, contracts, tloc, tret, apiCalls>>

\* a variant that keeps the lock while the request to the connector is made
SubmitReadKeepsLock(t) ==
    /\ tpc[t] = "subRead"
    /\ mux = t
    /\ tloc' = [tloc EXCEPT ![t].chaincode = fireflyContract.chaincode]
    /\ tpc' = [tpc EXCEPT ![t] = "subInvoke"]
    /\ UNCHANGED <<fnIn, fnOut, connector, conf, inited, topic, wsconn, closedCh, started, ctxDone,
                   listeners, pc, connSent>>
    /\ UNCHANGED loopVars
    /\ UNCHANGED <<fireflyContract, mux, contracts, tret, apiCalls>>

\* SubmitBatchPin / SubmitNetworkAction: chaincode := ...chaincode; Unlock()
SubmitRead(t) ==
    /\ tpc[t] = "subRead"
    /\ mux = t
    /\ tloc' = [tloc EXCEPT ![t].chaincode = fireflyContract.chaincode]
    /\ mux' = "free"
    /\ tpc' = [tpc EXCEPT ![t] = "subInvoke"]
    /\ UNCHANGED <<fnIn, fnOut, connector, conf, inited, topic, wsconn, closedCh, started, ctxDone,
                   listeners, pc, connSent>>
    /\ UNCHANGED loopVars
    /\ UNCHANGED <<fireflyContract, contracts, tret, apiCalls>>

\* SubmitBatchPin / SubmitNetworkAction: invokeContractMethod, a POST to the
\* connector that succeeds or not
SubmitInvoke(t, ok) ==
    /\ tpc[t] = "subInvoke"
    /\ apiCalls' = apiCalls + 1
    /\ Return(t, IF ok THEN "nil" ELSE "restErr", FALSE)
    /\ UNCHANGED <<fnIn, fnOut, connector, conf, inited, topic, wsconn, closedCh, started, ctxDone,
                   listeners, pc, connSent>>
    /\ UNCHANGED loopVars
    /\ UNCHANGED <<fireflyContract, mux, contracts>>

\* the host calls NetworkVersion()
CallNetworkVersion(t) ==
    /\ inited = "ok"
    /\ tpc[t] = "idle"
    /\ OpsStarted < MaxOps
    /\ tpc' = [tpc EXCEPT ![t] = "nvLock"]
    /\ tloc' = [tloc EXCEPT ![t] = [NoLocals EXCEPT !.op = "networkVersion"]]
    /\ UNCHANGED <<fnIn, fnOut, connector, conf, inited, topic, wsconn, closedCh, started, ctxDone,
                   listeners, pc, connSent>>
    /\ UNCHANGED loopVars
    /\ UNCHANGED <<fireflyContract, mux, contracts, tret, apiCalls>>

\* a variant that reads the version without waiting for the lock
VersionLockNoWait(t) ==
    /\ tpc[t] = "nvLock"
    /\ tpc' = [tpc EXCEPT ![t] = "nvRead"]
    /\ UNCHANGED <<fnIn, fnOut, connector, conf, inited, topic, wsconn, closedCh, started, ctxDone,
                   listeners, pc, connSent>>
    /\ UNCHANGED loopVars
    /\ UNCHANGED <<fireflyContract, mux, contracts, tloc, tret, apiCalls>>

\* NetworkVersion: f.fireflyContract.mux.Lock()
VersionLock(t) ==
    /\ tpc[t] = "nvLock"
    /\ mux = "free"
    /\ mux' = t
    /\ tpc' = [tpc EXCEPT ![t] = "nvRead"]
    /\ UNCHANGED <<fnIn, fnOut, connector, conf, inited, topic, wsconn, closedCh, started, ctxDone,
                   listeners, pc, connSent>>
    /\ UNCHANGED loopVars
    /\ UNCHANGED <<fireflyContract, contracts, tloc, tret, apiCalls>>

\* NetworkVersion: return f.fireflyContract.networkVersion, the deferred
\* Unlock() running as the call returns
VersionRead(t) ==
    /\ tpc[t] = "nvRead"
    /\ mux = t
    /\ mux' = "free"
    /\ tpc' = [tpc EXCEPT ![t] = "idle"]
    /\ tret' = [tret EXCEPT ![t] = [op |-> tloc[t].op, err |-> "nil",
                                    ignored |-> FALSE, touched |-> FALSE,
                                    count |-> tret[t].count + 1,
                                    value |-> fireflyContract.networkVersion]]
    /\ tloc' = [tloc EXCEPT ![t] = NoLocals]
    /\ UNCHANGED <<fnIn, fnOut, connector, conf, inited, topic, wsconn, closedCh, started, ctxDone,
                   listeners, pc, connSent>>
    /\ UNCHANGED loopVars
    /\ UNCHANGED <<fireflyContract, contracts, apiCalls>>

\* a whole ConfigureContract call that succeeds, made by the host between
\* Init and Start, when no other task touches the plugin: the connector
\* answers with subscription subID and has no NetworkVersion function
ConfigureContractBeforeStart(subID) ==
    /\ inited = "ok"
    /\ ~started
    /\ fireflyContract = EmptyTuple
    /\ mux = "free"
    /\ LET r == resolveFireFlyContract(conf, contracts.Active.Index)
       IN  /\ r.ok
           /\ fireflyContract' = Tuple(r.chaincode, r.fromBlock, 1, subID)
           /\ contracts' = [contracts EXCEPT !.Active.Info =
                                Info(r.chaincode, r.fromBlock, subID)]
    /\ apiCalls' = apiCalls + 2
    /\ UNCHANGED <<fnIn, fnOut, connector, conf, inited, topic, wsconn, closedCh, started, ctxDone,
                   listeners, pc, connSent>>
    /\ UNCHANGED loopVars
    /\ UNCHANGED <<mux, tpc, tloc, tret>>

(***************************************************************************)
(* The callback fan-out and the event loop.                                *)
(***************************************************************************)
CallRec(i, kind, arg, invoked, res) ==
    [idx |-> i, kind |-> kind, arg |-> arg, invoked |-> invoked, res |-> res,
     answers |-> <<>>]

\* what each registered listener would return if it were called
Answers == [1..Len(ListenerIds) -> {"nil", "err"}]

\* a fan-out that calls every listener and reports an error afterwards
FanOutNoAbort(ls, answers) ==
    [invoked |-> ls,
     res |-> IF \E i \in 1..Len(ls) : answers[i] = "err" THEN "err" ELSE "nil"]

\* callbacks.BatchPinComplete / BlockchainNetworkAction / BlockchainEvent:
\* for _, cb := range cb.listeners, returning the first error; invoked is
\* the list of listeners called, in the order of the calls
RECURSIVE FanOutFrom(_, _, _)
FanOutFrom(ls, answers, i) ==
    IF i > Len(ls)
    THEN [invoked |-> <<>>, res |-> "nil"]
    ELSE IF answers[i] = "err"
         THEN [invoked |-> <<ls[i]>>, res |-> "err"]
         ELSE LET rest == FanOutFrom(ls, answers, i + 1)
              IN  [invoked |-> <<ls[i]>> \o rest.invoked, res |-> rest.res]
FanOut(ls, answers) == FanOutFrom(ls, answers, 1)

\* callbacks.BlockchainOpUpdate: every listener is called, nothing returned
FanOutOpUpdate(ls) == [i \in 1..Len(ls) |-> ls[i]]

\* a receipt handler that reports every reply as a success
handleReceiptAllSucceed(f, ls) ==
    IF f.requestId = "" \/ f.type = ""
    THEN <<>>
    ELSE <<CallRec(0, "BlockchainOpUpdate",
                   [nsOpID |-> f.requestId, status |-> "Succeeded"],
                   FanOutOpUpdate(ls), "nil")>>

\* handleReceipt
handleReceipt(f, ls) ==
    IF f.requestId = "" \/ f.type = ""
    THEN <<>>
    ELSE <<CallRec(0, "BlockchainOpUpdate",
                   [nsOpID |-> f.requestId,
                    status |-> IF f.type # "TransactionSuccess" THEN "Failed"
                                                                ELSE "Succeeded"],
                   FanOutOpUpdate(ls), "nil")>>

\* an event loop that goes round again when the context is cancelled
LoopCtxDoneIgnored ==
    /\ pc = "select"
    /\ ctxDone
    /\ pc' = "continue"
    /\ UNCHANGED <<fnIn, fnOut, connector, conf, inited, topic, wsconn, closedCh, started, ctxDone,
                   listeners, connSent>>
    /\ UNCHANGED loopVars
    /\ UNCHANGED contractVars

\* eventLoop, case <-ctx.Done()
LoopCtxDone ==
    /\ pc = "select"
    /\ ctxDone
    /\ pc' = "deferClose"
    /\ UNCHANGED <<fnIn, fnOut, connector, conf, inited, topic, wsconn, closedCh, started, ctxDone,
                   listeners, connSent>>
    /\ UNCHANGED loopVars
    /\ UNCHANGED contractVars

\* the transport closes its receive channel; the loop can notice it only at
\* its select, so the event is placed there
RecvChannelClosed ==
    /\ pc = "select"
    /\ wsconn = "connected"
    /\ wsconn' = "recvClosed"
    /\ UNCHANGED <<fnIn, fnOut, connector, conf, inited, topic, closedCh, started, ctxDone, listeners,
                   pc, connSent>>
    /\ UNCHANGED loopVars
    /\ UNCHANGED contractVars

\* eventLoop, case Receive() with !ok: the transport has closed the channel
LoopRecvClosed ==
    /\ pc = "select"
    /\ wsconn = "recvClosed"
    /\ pc' = "deferClose"
    /\ UNCHANGED <<fnIn, fnOut, connector, conf, inited, topic, wsconn, closedCh, started, ctxDone,
                   listeners, connSent>>
    /\ UNCHANGED loopVars
    /\ UNCHANGED contractVars

\* an event loop that acknowledges receipts as well
LoopReceiveAckReceipts(f) ==
    /\ pc = "select"
    /\ wsconn = "connected"
    /\ rcvCount < MaxFrames
    /\ rcvCount' = rcvCount + 1
    /\ cur' = f
    /\ IF f.kind = "batch"
       THEN /\ pc' = "batch"
            /\ idx' = 1
            /\ calls' = <<>>
       ELSE /\ pc' = IF f.kind = "receipt" THEN "ack" ELSE "continue"
            /\ idx' = 0
            /\ calls' = IF f.kind = "receipt" THEN handleReceipt(f, listeners)
                                              ELSE <<>>
    /\ UNCHANGED <<fnIn, fnOut, connector, conf, inited, topic, wsconn, closedCh, started, ctxDone,
                   listeners, connSent>>
    /\ UNCHANGED <<batchErr, lastCall, sent>>
    /\ UNCHANGED contractVars

\* an event loop that gives up on a frame it cannot use
LoopReceiveBadFrameExits(f) ==
    /\ pc = "select"
    /\ wsconn = "connected"
    /\ rcvCount < MaxFrames
    /\ rcvCount' = rcvCount + 1
    /\ cur' = f
    /\ IF f.kind = "batch"
       THEN /\ pc' = "batch"
            /\ idx' = 1
            /\ calls' = <<>>
       ELSE /\ pc' = IF f.kind = "receipt" THEN "continue" ELSE "deferClose"
            /\ idx' = 0
            /\ calls' = IF f.kind = "receipt" THEN handleReceipt(f, listeners)
                                              ELSE <<>>
    /\ UNCHANGED <<fnIn, fnOut, connector, conf, inited, topic, wsconn, closedCh, started, ctxDone,
                   listeners, connSent>>
    /\ UNCHANGED <<batchErr, lastCall, sent>>
    /\ UNCHANGED contractVars

\* eventLoop, case Receive() with a frame: json.Unmarshal and the type switch
LoopReceive(f) ==
    /\ pc = "select"
    /\ wsconn = "connected"
    /\ rcvCount < MaxFrames
    /\ rcvCount' = rcvCount + 1
    /\ cur' = f
    /\ IF f.kind = "batch"
       THEN /\ pc' = "batch"
            /\ idx' = 1
            /\ calls' = <<>>
       ELSE /\ pc' = "continue"
            /\ idx' = 0
            /\ calls' = IF f.kind = "receipt" THEN handleReceipt(f, listeners)
                                              ELSE <<>>
    /\ UNCHANGED <<fnIn, fnOut, connector, conf, inited, topic, wsconn, closedCh, started, ctxDone,
                   listeners, connSent>>
    /\ UNCHANGED <<batchErr, lastCall, sent>>
    /\ UNCHANGED contractVars

\* handleMessageBatch: f.fireflyContract.mux.Lock() for an object entry
LoopRouteLock ==
    /\ pc = "batch"
    /\ idx <= Len(cur.msgs)
    /\ Msg(cur.msgs[idx]).obj
    /\ mux = "free"
    /\ mux' = "loop"
    /\ pc' = "route"
    /\ UNCHANGED <<fnIn, fnOut, connector, conf, inited, topic, wsconn, closedCh, started, ctxDone,
                   listeners, connSent>>
    /\ UNCHANGED loopVars
    /\ UNCHANGED <<fireflyContract, contracts, tpc, tloc, tret, apiCalls>>

\* a range loop that starts the callback and moves on without waiting for it
LoopMessageNoWait ==
    /\ IF pc = "batch" /\ (idx > Len(cur.msgs) \/ ~Msg(cur.msgs[idx]).obj)
       THEN /\ batchErr' = "nil"
            /\ pc' = "ack"
            /\ UNCHANGED <<idx, calls, lastCall, mux>>
       ELSE /\ pc = "route"
            /\ mux = "loop"
            /\ mux' = "free"
            /\ LET r == RouteTable[cur.msgs[idx], fireflyContract.subscription]
               IN  IF r.dispatch
                   THEN /\ calls' = Append(calls,
                                           CallRec(idx, r.kind, r.arg, <<>>, "inflight"))
                        /\ lastCall' = <<rcvCount, idx>>
                        /\ idx' = idx + 1
                        /\ pc' = "batch"
                        /\ UNCHANGED batchErr
                   ELSE /\ idx' = idx + 1
                        /\ pc' = "batch"
                        /\ UNCHANGED <<calls, lastCall, batchErr>>
    /\ UNCHANGED <<fnIn, fnOut, connector, conf, inited, topic, wsconn, closedCh, started, ctxDone,
                   listeners, connSent>>
    /\ UNCHANGED <<rcvCount, cur, sent>>
    /\ UNCHANGED <<fireflyContract, contracts, tpc, tloc, tret, apiCalls>>

\* a range loop that keeps routing on the subscription of the first
\* deployment it knew, whatever the tuple says now
LoopMessageStaleSub ==
    /\ IF pc = "batch" /\ (idx > Len(cur.msgs) \/ ~Msg(cur.msgs[idx]).obj)
       THEN /\ batchErr' = "nil"
            /\ pc' = "ack"
            /\ UNCHANGED <<idx, calls, lastCall, mux>>
       ELSE /\ pc = "route"
            /\ mux = "loop"
            /\ mux' = "free"
            /\ LET first == IF Len(contracts.Terminated) > 0
                            THEN contracts.Terminated[1].Info.subscription
                            ELSE fireflyContract.subscription
                   r == RouteTable[cur.msgs[idx], first]
               IN  IF r.dispatch
                   THEN /\ calls' = Append(calls,
                                           CallRec(idx, r.kind, r.arg, <<>>, "inflight"))
                        /\ lastCall' = <<rcvCount, idx>>
                        /\ pc' = "callback"
                        /\ UNCHANGED <<idx, batchErr>>
                   ELSE /\ idx' = idx + 1
                        /\ pc' = "batch"
                        /\ UNCHANGED <<calls, lastCall, batchErr>>
    /\ UNCHANGED <<fnIn, fnOut, connector, conf, inited, topic, wsconn, closedCh, started, ctxDone,
                   listeners, connSent>>
    /\ UNCHANGED <<rcvCount, cur, sent>>
    /\ UNCHANGED <<fireflyContract, contracts, tpc, tloc, tret, apiCalls>>

\* handleMessageBatch: one iteration of the range loop, up to the callback:
\* the return at a non-object entry or at the end of the range, or else the
\* read of the subscription, Unlock() and the routing
LoopMessage ==
    /\ IF pc = "batch" /\ (idx > Len(cur.msgs) \/ ~Msg(cur.msgs[idx]).obj)
       THEN /\ batchErr' = "nil"
            /\ pc' = "ack"
            /\ UNCHANGED <<idx, calls, lastCall, mux>>
       ELSE /\ pc = "route"
            /\ mux = "loop"
            /\ mux' = "free"
            /\ LET r == RouteTable[cur.msgs[idx], fireflyContract.subscription]
               IN  IF r.dispatch
                   THEN /\ calls' = Append(calls,
                                           CallRec(idx, r.kind, r.arg, <<>>, "inflight"))
                        /\ lastCall' = <<rcvCount, idx>>
                        /\ pc' = "callback"
                        /\ UNCHANGED <<idx, batchErr>>
                   ELSE /\ idx' = idx + 1
                        /\ pc' = "batch"
                        /\ UNCHANGED <<calls, lastCall, batchErr>>
    /\ UNCHANGED <<fnIn, fnOut, connector, conf, inited, topic, wsconn, closedCh, started, ctxDone,
                   listeners, connSent>>
    /\ UNCHANGED <<rcvCount, cur, sent>>
    /\ UNCHANGED <<fireflyContract, contracts, tpc, tloc, tret, apiCalls>>

\* a range loop that logs a callback error and carries on
LoopCallbackReturnSwallow(answers) ==
    /\ pc = "callback"
    /\ LET out == FanOut(listeners, answers)
       IN  calls' = [calls EXCEPT ![Len(calls)].invoked = out.invoked,
                                  ![Len(calls)].res = out.res,
                                  ![Len(calls)].answers =
                                      SubSeq(answers, 1, Len(listeners))]
    /\ idx' = idx + 1
    /\ pc' = "batch"
    /\ UNCHANGED batchErr
    /\ UNCHANGED <<fnIn, fnOut, connector, conf, inited, topic, wsconn, closedCh, started, ctxDone,
                   listeners, connSent>>
    /\ UNCHANGED <<rcvCount, cur, lastCall, sent>>
    /\ UNCHANGED contractVars

\* the callback returns: nil moves to the next message, an error leaves
\* handleMessageBatch and the loop
LoopCallbackReturn(answers) ==
    /\ pc = "callback"
    /\ LET out == FanOut(listeners, answers)
       IN  /\ calls' = [calls EXCEPT ![Len(calls)].invoked = out.invoked,
                                     ![Len(calls)].res = out.res,
                                  ![Len(calls)].answers =
                                      SubSeq(answers, 1, Len(listeners))]
           /\ IF out.res = "nil"
              THEN /\ idx' = idx + 1
                   /\ pc' = "batch"
                   /\ UNCHANGED batchErr
              ELSE /\ batchErr' = "err"
                   /\ pc' = "deferClose"
                   /\ UNCHANGED idx
    /\ UNCHANGED <<fnIn, fnOut, connector, conf, inited, topic, wsconn, closedCh, started, ctxDone,
                   listeners, connSent>>
    /\ UNCHANGED <<rcvCount, cur, lastCall, sent>>
    /\ UNCHANGED contractVars

\* an event loop that logs a failed ack and goes on to the next frame
LoopAckIgnoresError(sendOK) ==
    /\ pc = "ack"
    /\ sent' = Append(sent, SendRec("ack", topic, sendOK))
    /\ pc' = "continue"
    /\ UNCHANGED <<fnIn, fnOut, connector, conf, inited, topic, wsconn, closedCh, started, ctxDone,
                   listeners, connSent>>
    /\ UNCHANGED <<rcvCount, cur, idx, batchErr, calls, lastCall>>
    /\ UNCHANGED contractVars

\* eventLoop: wsconn.Send(ctx, ack) after a batch that returned nil
LoopAck(sendOK) ==
    /\ pc = "ack"
    /\ sent' = Append(sent, SendRec("ack", topic, sendOK))
    /\ pc' = IF sendOK THEN "continue" ELSE "deferClose"
    /\ UNCHANGED <<fnIn, fnOut, connector, conf, inited, topic, wsconn, closedCh, started, ctxDone,
                   listeners, connSent>>
    /\ UNCHANGED <<rcvCount, cur, idx, batchErr, calls, lastCall>>
    /\ UNCHANGED contractVars

\* eventLoop: the iteration is over, back to the select
LoopContinue ==
    /\ pc = "continue"
    /\ pc' = "select"
    /\ cur' = NoFrame
    /\ idx' = 0
    /\ batchErr' = "none"
    /\ calls' = <<>>
    /\ sent' = <<>>
    /\ UNCHANGED <<fnIn, fnOut, connector, conf, inited, topic, wsconn, closedCh, started, ctxDone,
                   listeners, connSent>>
    /\ UNCHANGED <<rcvCount, lastCall>>
    /\ UNCHANGED contractVars

\* eventLoop returns; its deferred calls run last-registered first:
\* close(f.closed) ...
LoopDeferClose ==
    /\ pc = "deferClose"
    /\ closedCh' = "closed"
    /\ pc' = "deferWsClose"
    /\ cur' = NoFrame
    /\ idx' = 0
    /\ batchErr' = "none"
    /\ calls' = <<>>
    /\ sent' = <<>>
    /\ UNCHANGED <<fnIn, fnOut, connector, conf, inited, topic, wsconn, started, ctxDone, listeners,
                   connSent>>
    /\ UNCHANGED <<rcvCount, lastCall>>
    /\ UNCHANGED contractVars

\* ... then f.wsconn.Close()
LoopDeferWsClose ==
    /\ pc = "deferWsClose"
    /\ wsconn' = "closed"
    /\ pc' = "exited"
    /\ UNCHANGED <<fnIn, fnOut, connector, conf, inited, topic, closedCh, started, ctxDone, listeners,
                   connSent>>
    /\ UNCHANGED loopVars
    /\ UNCHANGED contractVars

(***************************************************************************)
(* SubmitBatchPin's encoding of a batch pin, exercised on its own against  *)
(* handleBatchPinEvent's decoding.                                         *)
(***************************************************************************)
MaxContexts == 2     \* contexts of one batch pin

\* a nil *fftypes.Bytes32
Nil == <<>>

\* byte strings the host may pass: all zero, all 0xff, and mixed
ByteString(kind, n) ==
    CASE kind = "zero" -> Rep(0, n)
      [] kind = "ones" -> Rep(255, n)
      [] kind = "mixed" -> [i \in 1..n |-> (i * 37 + 11) % 256]
UUIDs == {ByteString(k, UUIDLen) : k \in {"zero", "ones", "mixed"}}
Hashes == {ByteString(k, Bytes32Len) : k \in {"zero", "mixed"}}

BatchPin(ns, txnID, batchID, batchHash, payloadRef, contexts) ==
    [Namespace |-> ns, TransactionID |-> txnID, BatchID |-> batchID,
     BatchHash |-> batchHash, BatchPayloadRef |-> payloadRef,
     Contexts |-> contexts]

\* the batch pins the host may submit; hash pointers may be nil
BatchPins ==
    {BatchPin(ns, txnID, batchID, batchHash, payloadRef, contexts) :
        ns \in {NsData, NsAction}, txnID \in UUIDs, batchID \in UUIDs,
        batchHash \in Hashes \cup {Nil}, payloadRef \in {"", "ref1"},
        contexts \in UNION {[1..n -> Hashes \cup {Nil}] : n \in 0..MaxContexts}}

\* hexFormatB32
hexFormatB32(b) ==
    IF b = Nil THEN Hex0x(Rep("0", 2 * Bytes32Len))
               ELSE Hex0x(HexEncodeToString(SubSeq(b, 1, Bytes32Len)))

\* a SubmitBatchPin that packs the batch ID before the transaction ID
pinInputSwapped(batch) ==
    [namespace |-> batch.Namespace,
     uuids |-> hexFormatB32(batch.BatchID \o batch.TransactionID),
     batchHash |-> hexFormatB32(batch.BatchHash),
     payloadRef |-> batch.BatchPayloadRef,
     contexts |-> [i \in 1..Len(batch.Contexts) |->
                      hexFormatB32(batch.Contexts[i])]]

\* SubmitBatchPin: the pinInput map handed to the chaincode
pinInput(batch) ==
    [namespace |-> batch.Namespace,
     uuids |-> hexFormatB32(batch.TransactionID \o batch.BatchID),
     batchHash |-> hexFormatB32(batch.BatchHash),
     payloadRef |-> batch.BatchPayloadRef,
     contexts |-> [i \in 1..Len(batch.Contexts) |->
                      hexFormatB32(batch.Contexts[i])]]

\* the BatchPin event the chaincode emits for a pinInput, as it arrives on
\* the firefly subscription
PinEvent(input) ==
    ObjMsg(Sub0, broadcastBatchEventName, "ok",
           [signer |-> "signer1", namespace |-> input.namespace,
            uuids |-> input.uuids, batchHash |-> input.batchHash,
            payloadRef |-> input.payloadRef, contexts |-> input.contexts])

\* SubmitBatchPin encodes the batch, handleBatchPinEvent decodes the event
SubmitThenReceive ==
    /\ fnIn.fn = "SubmitBatchPin"
    /\ ~fnOut.done
    /\ LET input == pinInput(fnIn.batch)
       IN  fnOut' = [done |-> TRUE, input |-> input,
                     event |-> handleBatchPinEvent(PinEvent(input))]
    /\ UNCHANGED <<fnIn, connector, conf, inited, topic, wsconn, closedCh,
                   started, ctxDone, listeners, pc, connSent>>
    /\ UNCHANGED loopVars
    /\ UNCHANGED contractVars

(***************************************************************************)
(* SubmitNetworkAction's pin, exercised on its own against the routing of  *)
(* the event it produces.                                                  *)
(***************************************************************************)
MaxActionLen == 3    \* characters of an action name

\* core.NetworkActionType is a string: every name up to the bound over a few
\* characters, the empty name and names holding the separator included
ActionChars == {"t", "e", "f", ":"}
NetworkActions == UNION {[1..n -> ActionChars] : n \in 0..MaxActionLen}

\* a SubmitNetworkAction that leaves the prefix out
actionInputNoPrefix(action) ==
    [namespace |-> action,
     uuids |-> hexFormatB32(Nil),
     batchHash |-> hexFormatB32(Nil),
     payloadRef |-> "",
     contexts |-> <<>>]

\* SubmitNetworkAction: the pinInput map handed to the chaincode
actionInput(action) ==
    [namespace |-> FireFlyActionPrefix \o action,
     uuids |-> hexFormatB32(Nil),
     batchHash |-> hexFormatB32(Nil),
     payloadRef |-> "",
     contexts |-> <<>>]

\* SubmitNetworkAction builds the pin, the range loop of handleMessageBatch
\* routes the event it comes back as, the active subscription being Sub0
SubmitActionThenReceive ==
    /\ fnIn.fn = "SubmitNetworkAction"
    /\ ~fnOut.done
    /\ LET input == actionInput(fnIn.action)
       IN  fnOut' = [done |-> TRUE, input |-> input,
                     event |-> RouteMessage(PinEvent(input), Sub0)]
    /\ UNCHANGED <<fnIn, connector, conf, inited, topic, wsconn, closedCh,
                   started, ctxDone, listeners, pc, connSent>>
    /\ UNCHANGED loopVars
    /\ UNCHANGED contractVars

(***************************************************************************)
(* parseBlockchainEvent's ProtocolID, exercised on its own.  An int64 is   *)
(* held as <<high, low>> with value high * Limb + low, 0 <= low < Limb,    *)
(* since block numbers run to twelve decimal digits.                       *)
(***************************************************************************)
BlockDigits == 12
IndexDigits == 6
Limb == 1000000

Digit(d) == HexDigits[d + 1]

\* the decimal digits of a natural number below Limb * Limb
RECURSIVE DecDigits(_)
DecDigits(v) ==
    IF v < 10 THEN <<Digit(v)>> ELSE DecDigits(v \div 10) \o <<Digit(v % 10)>>
PadLeft(s, n) == IF Len(s) >= n THEN s ELSE Rep("0", n - Len(s)) \o s
Int64Digits(v) ==
    IF v[1] = 0 THEN DecDigits(v[2])
                ELSE DecDigits(v[1]) \o PadLeft(DecDigits(v[2]), IndexDigits)

\* fmt's %.Nd for a non-negative value: at least N digits, zero padded
SprintfPrecD(n, v) == PadLeft(Int64Digits(v), n)

\* fmt's %d
SprintfD(v) == Int64Digits(v)

\* a ProtocolID built with "%d/%d/%d"
ProtocolIDUnpadded(blockNumber, transactionIndex, eventIndex) ==
    SprintfD(blockNumber) \o <<"/">> \o SprintfD(transactionIndex)
        \o <<"/">> \o SprintfD(eventIndex)

\* parseBlockchainEvent: fmt.Sprintf("%.12d/%.6d/%.6d", ...)
ProtocolID(blockNumber, transactionIndex, eventIndex) ==
    SprintfPrecD(BlockDigits, blockNumber) \o <<"/">>
        \o SprintfPrecD(IndexDigits, transactionIndex) \o <<"/">>
        \o SprintfPrecD(IndexDigits, eventIndex)

\* the values the connector may report, some beyond the field widths
BlockNumbers == {<<0, 0>>, <<0, 1>>, <<0, 10>>, <<0, 999999>>, <<1, 0>>,
                 <<999999, 999999>>, <<1000000, 0>>}
TransactionIndexes == {<<0, 0>>, <<0, 1>>, <<0, 9>>, <<0, 10>>, <<0, 200000>>,
                       <<0, 999999>>, <<1, 0>>}
EventIndexes == {<<0, 0>>, <<0, 7>>, <<0, 999999>>}
EventPositions ==
    {[blockNumber |-> b, transactionIndex |-> t, eventIndex |-> e] :
        b \in BlockNumbers, t \in TransactionIndexes, e \in EventIndexes}

\* parseBlockchainEvent builds the ProtocolID of two events
FormatProtocolIDs ==
    /\ fnIn.fn = "ProtocolID"
    /\ ~fnOut.done
    /\ fnOut' = [done |-> TRUE,
                 a |-> ProtocolID(fnIn.a.blockNumber, fnIn.a.transactionIndex,
                                  fnIn.a.eventIndex),
                 b |-> ProtocolID(fnIn.b.blockNumber, fnIn.b.transactionIndex,
                                  fnIn.b.eventIndex)]
    /\ UNCHANGED <<fnIn, connector, conf, inited, topic, wsconn, closedCh,
                   started, ctxDone, listeners, pc, connSent>>
    /\ UNCHANGED loopVars
    /\ UNCHANGED contractVars

(***************************************************************************)
(* The stream manager (f.streams), defined elsewhere in the package.       *)
(* These definitions follow its documented contract: list the connector's  *)
(* streams or subscriptions, reuse the match, create if none.              *)
(***************************************************************************)
MaxEnsure == 4      \* ensure calls made in all

StreamTopics == {"topic1", "topic2"}
BatchSizes == {"50", "100"}
Locations == {"cc0", "cc1"}
EventNames == {"BatchPin"}

EventStream(id, tp, batchSize) == [id |-> id, topic |-> tp, batchSize |-> batchSize]
Subscription(id, stream, name, fromBlock) ==
    [id |-> id, stream |-> stream, name |-> name, fromBlock |-> fromBlock]
NoEnsure == [op |-> "none", key |-> <<>>, args |-> <<>>, id |-> 0,
             created |-> FALSE]
EmptyConnector ==
    [streams |-> <<>>, subs |-> <<>>, posts |-> 0, patches |-> 0, calls |-> 0,
     last |-> NoEnsure]

\* a connector that kept a stream and a subscription from an earlier run
RestartedConnector ==
    [EmptyConnector EXCEPT
        !.streams = <<EventStream(1, "topic1", "50")>>,
        !.subs = <<Subscription(1, 1, <<"BatchPin", "cc0">>, "0")>>]

\* the subscription name: a fixed function of the event name and location
SubName(location, eventName) == <<eventName, location>>

\* position of the first of the given positions of a list, 0 if none
FirstMatch(hits) ==
    IF hits = {} THEN 0 ELSE CHOOSE i \in hits : \A j \in hits : i <= j

\* a stream manager that creates a stream on every call
ensureEventStreamAlwaysCreates(c, tp, batchSize) ==
    LET id == Len(c.streams) + 1
    IN  [conn |-> [c EXCEPT !.streams = Append(c.streams,
                                               EventStream(id, tp, batchSize)),
                            !.posts = c.posts + 1],
         id |-> id, created |-> TRUE]

\* ensureEventStream: list the streams, match by topic; reuse the match,
\* patching its batch size if it differs, or create a stream
ensureEventStream(c, tp, batchSize) ==
    LET i == FirstMatch({k \in 1..Len(c.streams) : c.streams[k].topic = tp})
        id == Len(c.streams) + 1
    IN  IF i # 0
        THEN [conn |-> IF c.streams[i].batchSize = batchSize
                       THEN c
                       ELSE [c EXCEPT !.streams[i].batchSize = batchSize,
                                      !.patches = c.patches + 1],
              id |-> c.streams[i].id, created |-> FALSE]
        ELSE [conn |-> [c EXCEPT !.streams = Append(c.streams,
                                                    EventStream(id, tp, batchSize)),
                                 !.posts = c.posts + 1],
              id |-> id, created |-> TRUE]

\* ensureFireFlySubscription: list the subscriptions, match by the name
\* derived from location and event name; reuse the match or create
ensureFireFlySubscription(c, location, fromBlock, streamID, eventName) ==
    LET name == SubName(location, eventName)
        i == FirstMatch({k \in 1..Len(c.subs) : c.subs[k].name = name})
        id == Len(c.subs) + 1
    IN  IF i # 0
        THEN [conn |-> c, id |-> c.subs[i].id, created |-> FALSE]
        ELSE [conn |-> [c EXCEPT !.subs = Append(c.subs,
                                    Subscription(id, streamID, name, fromBlock)),
                                 !.posts = c.posts + 1],
              id |-> id, created |-> TRUE]

\* Init calls ensureEventStream for the configured topic
EnsureEventStream(tp, batchSize) ==
    /\ connector.calls < MaxEnsure
    /\ LET r == ensureEventStream(connector, tp, batchSize)
       IN  connector' = [r.conn EXCEPT
                            !.calls = connector.calls + 1,
                            !.last = [op |-> "ensureEventStream", key |-> <<tp>>,
                                      args |-> <<tp, batchSize>>,
                                      id |-> r.id, created |-> r.created]]
    /\ UNCHANGED <<fnIn, fnOut, conf, inited, topic, wsconn, closedCh, started, ctxDone,
                   listeners, pc, connSent>>
    /\ UNCHANGED loopVars
    /\ UNCHANGED contractVars

\* ConfigureContract calls ensureFireFlySubscription on a stream of Init
EnsureFireFlySubscription(location, fromBlock, streamID, eventName) ==
    /\ connector.calls < MaxEnsure
    /\ \E i \in 1..Len(connector.streams) : connector.streams[i].id = streamID
    /\ LET r == ensureFireFlySubscription(connector, location, fromBlock,
                                          streamID, eventName)
       IN  connector' = [r.conn EXCEPT
                            !.calls = connector.calls + 1,
                            !.last = [op |-> "ensureFireFlySubscription",
                                      key |-> SubName(location, eventName),
                                      args |-> <<location, fromBlock, streamID,
                                                 eventName>>,
                                      id |-> r.id, created |-> r.created]]
    /\ UNCHANGED <<fnIn, fnOut, conf, inited, topic, wsconn, closedCh, started, ctxDone,
                   listeners, pc, connSent>>
    /\ UNCHANGED loopVars
    /\ UNCHANGED contractVars

\* the plugin as constructed: nothing initialised, the tuple empty
Init ==
    /\ conf = ConfTwo
    /\ inited = "no"
    /\ topic = ""
    /\ wsconn = "nil"
    /\ closedCh = "nil"
    /\ started = FALSE
    /\ ctxDone = FALSE
    /\ listeners = <<>>
    /\ pc = "none"
    /\ rcvCount = 0
    /\ cur = NoFrame
    /\ idx = 0
    /\ batchErr = "none"
    /\ calls = <<>>
    /\ lastCall = <<0, 0>>
    /\ connSent = <<>>
    /\ sent = <<>>
    /\ fireflyContract = EmptyTuple
    /\ mux = "free"
    /\ contracts = NewContracts
    /\ tpc = [t \in Tasks |-> "idle"]
    /\ tloc = [t \in Tasks |-> NoLocals]
    /\ tret = [t \in Tasks |-> NoReturn]
    /\ apiCalls = 0
    /\ connector = EmptyConnector
    /\ fnIn = NoCall
    /\ fnOut = NoResult

Next ==
    \/ \E url \in {"", "http://fabconnect"}, tp \in {"", "topic1"},
          wsFails \in BOOLEAN, streamFails \in BOOLEAN :
          PluginInit(url, tp, wsFails, streamFails)
    \/ RegisterListener
    \/ ConfigureContractBeforeStart(Sub0)
    \/ \E connectOK \in BOOLEAN, listenOK \in BOOLEAN, repliesOK \in BOOLEAN :
          Start(connectOK, listenOK, repliesOK)
    \/ CancelCtx
    \/ RecvChannelClosed
    \/ LoopCtxDone
    \/ LoopRecvClosed
    \/ \E f \in Frames : LoopReceive(f)
    \/ LoopRouteLock
    \/ LoopMessage
    \/ \E answers \in Answers : LoopCallbackReturn(answers)
    \/ \E sendOK \in BOOLEAN : LoopAck(sendOK)
    \/ LoopContinue
    \/ LoopDeferClose
    \/ LoopDeferWsClose

Spec == Init /\ [][Next]_vars

\* the plugin after a successful Init, before any ConfigureContract: the
\* tuple is empty and the host holds a fresh contracts record
InitContract ==
    /\ conf \in ConfChoices
    /\ inited = "ok"
    /\ topic = "topic1"
    /\ wsconn = "new"
    /\ closedCh = "open"
    /\ started = FALSE
    /\ ctxDone = FALSE
    /\ listeners = <<>>
    /\ pc = "select"
    /\ rcvCount = 0
    /\ cur = NoFrame
    /\ idx = 0
    /\ batchErr = "none"
    /\ calls = <<>>
    /\ lastCall = <<0, 0>>
    /\ connSent = <<>>
    /\ sent = <<>>
    /\ fireflyContract = EmptyTuple
    /\ mux = "free"
    /\ contracts = NewContracts
    /\ tpc = [t \in Tasks |-> "idle"]
    /\ tloc = [t \in Tasks |-> NoLocals]
    /\ tret = [t \in Tasks |-> NoReturn]
    /\ apiCalls = 1
    /\ connector = EmptyConnector
    /\ fnIn = NoCall
    /\ fnOut = NoResult

NextContract ==
    \/ \E t \in Tasks : CallConfigureContract(t)
    \/ \E t \in Tasks, termination \in TermEvents :
          CallTerminateContract(t, termination)
    \/ \E t \in Tasks : TerminateLock(t)
    \/ \E t \in Tasks : TerminateRead(t)
    \/ \E t \in Tasks : TerminateCheck(t)
    \/ \E t \in Tasks : TerminateRecord(t)
    \/ \E t \in Tasks : ConfigureResolve(t)
    \/ \E t \in Tasks, ok \in BOOLEAN, subID \in {Sub0, Sub1} :
          ConfigureEnsureSub(t, ok, subID)
    \/ \E t \in Tasks, outcome \in {"ok", "notfound", "err"}, reported \in {2} :
          ConfigureVersion(t, outcome, reported)
    \/ \E t \in Tasks : ConfigureLock(t)
    \/ \E t \in Tasks : ConfigureWrite(t)
    \/ \E t \in Tasks : ConfigureInfo(t)

SpecContract == InitContract /\ [][NextContract]_vars

\* the frames the transport delivers while the host makes its calls
HostFrames == {Frame("batch", <<"pin", "custom">>, "", "")}

\* the plugin after Init, RegisterListener and Start, the transport
\* connected, no deployment bound yet, and the event loop having skipped
\* unusable frames (no callback, no ack) so that one frame is still to come
InitHost ==
    /\ conf = ConfTwo
    /\ inited = "ok"
    /\ topic = "topic1"
    /\ wsconn = "connected"
    /\ closedCh = "open"
    /\ started = TRUE
    /\ ctxDone = FALSE
    /\ listeners = <<"l1">>
    /\ pc = "select"
    /\ rcvCount = MaxFrames - 1
    /\ cur = NoFrame
    /\ idx = 0
    /\ batchErr = "none"
    /\ calls = <<>>
    /\ lastCall = <<0, 0>>
    /\ connSent = afterConnect("topic1", TRUE, TRUE).sends
    /\ sent = <<>>
    /\ fireflyContract = EmptyTuple
    /\ mux = "free"
    /\ contracts = NewContracts
    /\ tpc = [t \in Tasks |-> "idle"]
    /\ tloc = [t \in Tasks |-> NoLocals]
    /\ tret = [t \in Tasks |-> NoReturn]
    /\ apiCalls = 1
    /\ connector = EmptyConnector
    /\ fnIn = NoCall
    /\ fnOut = NoResult

\* the event loop and the host's calls, running side by side
NextHost ==
    \/ \E t \in Tasks : CallConfigureContract(t)
    \/ \E t \in Tasks : CallTerminateContract(t, TermEvent("cc0", "p1"))
    \/ \E t \in Tasks : TerminateLock(t)
    \/ \E t \in Tasks : TerminateRead(t)
    \/ \E t \in Tasks : TerminateCheck(t)
    \/ \E t \in Tasks : TerminateRecord(t)
    \/ \E t \in Tasks : ConfigureResolve(t)
    \/ \E t \in Tasks, ok \in BOOLEAN : ConfigureEnsureSub(t, ok, Sub0)
    \/ \E t \in Tasks, outcome \in {"notfound", "err"} :
          ConfigureVersion(t, outcome, 1)
    \/ \E t \in Tasks : ConfigureLock(t)
    \/ \E t \in Tasks : ConfigureWrite(t)
    \/ \E t \in Tasks : ConfigureInfo(t)
    \/ \E t \in Tasks, op \in {"submitBatchPin", "submitNetworkAction"} :
          CallSubmit(t, op)
    \/ \E t \in Tasks : SubmitLock(t)
    \/ \E t \in Tasks : SubmitRead(t)
    \/ \E t \in Tasks, ok \in BOOLEAN : SubmitInvoke(t, ok)
    \/ \E t \in Tasks : CallNetworkVersion(t)
    \/ \E t \in Tasks : VersionLock(t)
    \/ \E t \in Tasks : VersionRead(t)
    \/ \E f \in HostFrames : LoopReceive(f)
    \/ LoopRouteLock
    \/ LoopMessage
    \/ \E answers \in Answers : LoopCallbackReturn(answers)
    \/ \E sendOK \in BOOLEAN : LoopAck(sendOK)
    \/ LoopContinue
    \/ LoopDeferClose
    \/ LoopDeferWsClose

SpecHost == InitHost /\ [][NextHost]_vars

\* the frames the transport delivers before it shuts down
ShutdownFrames ==
    {Frame("badjson", <<>>, "", ""),
     Frame("receipt", <<>>, "op1", "TransactionSuccess"),
     Frame("batch", <<"pin">>, "", ""),
     Frame("batch", <<"pin", "custom">>, "", "")}

\* the plugin as a successful Init leaves it, the event loop started
InitShutdown ==
    /\ conf = ConfTwo
    /\ inited = "ok"
    /\ topic = "topic1"
    /\ wsconn = "new"
    /\ closedCh = "open"
    /\ started = FALSE
    /\ ctxDone = FALSE
    /\ listeners = <<>>
    /\ pc = "select"
    /\ rcvCount = 0
    /\ cur = NoFrame
    /\ idx = 0
    /\ batchErr = "none"
    /\ calls = <<>>
    /\ lastCall = <<0, 0>>
    /\ connSent = <<>>
    /\ sent = <<>>
    /\ fireflyContract = EmptyTuple
    /\ mux = "free"
    /\ contracts = NewContracts
    /\ tpc = [t \in Tasks |-> "idle"]
    /\ tloc = [t \in Tasks |-> NoLocals]
    /\ tret = [t \in Tasks |-> NoReturn]
    /\ apiCalls = 1
    /\ connector = EmptyConnector
    /\ fnIn = NoCall
    /\ fnOut = NoResult

\* what the host and the transport do around the event loop
NextShutdown ==
    \/ RegisterListener
    \/ ConfigureContractBeforeStart(Sub0)
    \/ \E connectOK \in BOOLEAN, listenOK \in BOOLEAN, repliesOK \in BOOLEAN :
          Start(connectOK, listenOK, repliesOK)
    \/ CancelCtx
    \/ RecvChannelClosed
    \/ LoopCtxDone
    \/ LoopRecvClosed
    \/ \E f \in ShutdownFrames : LoopReceive(f)
    \/ LoopRouteLock
    \/ LoopMessage
    \/ \E answers \in Answers : LoopCallbackReturn(answers)
    \/ \E sendOK \in BOOLEAN : LoopAck(sendOK)
    \/ LoopContinue
    \/ LoopDeferClose
    \/ LoopDeferWsClose

\* the event loop is a goroutine of its own and keeps running: each of its
\* statements is eventually executed, a listener callback and a websocket
\* send eventually return, and a select with the cancelled context among
\* its ready cases picks that case sooner or later (Go chooses among ready
\* cases at random).  Nothing is assumed of the host or of the transport.
LoopFairness ==
    /\ SF_vars(LoopCtxDone)
    /\ WF_vars(LoopRecvClosed)
    /\ WF_vars(LoopRouteLock)
    /\ WF_vars(LoopMessage)
    /\ WF_vars(\E answers \in Answers : LoopCallbackReturn(answers))
    /\ WF_vars(\E sendOK \in BOOLEAN : LoopAck(sendOK))
    /\ WF_vars(LoopContinue)
    /\ WF_vars(LoopDeferClose)
    /\ WF_vars(LoopDeferWsClose)

SpecShutdown == InitShutdown /\ [][NextShutdown]_vars /\ LoopFairness

\* the connector's answers for a deployment: the subscription it keeps for
\* the chaincode, and the version the chaincode reports (cc0 has no
\* NetworkVersion function)
SubFor(chaincode) == IF chaincode = "cc0" THEN Sub0 ELSE Sub1
VersionOutcomeFor(chaincode) == IF chaincode = "cc0" THEN "notfound" ELSE "ok"

\* two deployments configured, nothing published yet
InitPublish ==
    /\ InitContract
    /\ conf = ConfTwo

\* ConfigureContract and TerminateContract with the tuple written one
\* assignment at a time
NextPublish ==
    \/ \E t \in Tasks : CallConfigureContract(t)
    \/ \E t \in Tasks, termination \in TermEvents :
          CallTerminateContract(t, termination)
    \/ \E t \in Tasks : TerminateLock(t)
    \/ \E t \in Tasks : TerminateRead(t)
    \/ \E t \in Tasks : TerminateCheck(t)
    \/ \E t \in Tasks : TerminateRecord(t)
    \/ \E t \in Tasks : ConfigureResolve(t)
    \/ \E t \in Tasks, ok \in BOOLEAN :
          ConfigureEnsureSub(t, ok, SubFor(tloc[t].chaincode))
    \/ \E t \in Tasks, failed \in BOOLEAN :
          ConfigureVersion(t, IF failed THEN "err"
                                        ELSE VersionOutcomeFor(tloc[t].chaincode), 2)
    \/ \E t \in Tasks : ConfigureLock(t)
    \/ \E t \in Tasks : ConfigureAssignChaincode(t)
    \/ \E t \in Tasks : ConfigureAssignFromBlock(t)
    \/ \E t \in Tasks : ConfigureAssignVersion(t)
    \/ \E t \in Tasks : ConfigureAssignSubscription(t)
    \/ \E t \in Tasks : ConfigureUnlock(t)
    \/ \E t \in Tasks : ConfigureInfo(t)

SpecPublish == InitPublish /\ [][NextPublish]_vars

\* one caller configuring and terminating deployments, the connector
\* answering the version query in every way it can
NextVersion ==
    \/ CallConfigureContract("t1")
    \/ \E termination \in TermEvents : CallTerminateContract("t1", termination)
    \/ TerminateLock("t1")
    \/ TerminateRead("t1")
    \/ TerminateCheck("t1")
    \/ TerminateRecord("t1")
    \/ ConfigureResolve("t1")
    \/ \E ok \in BOOLEAN : ConfigureEnsureSub("t1", ok, SubFor(tloc["t1"].chaincode))
    \/ \E answer \in QueryAnswers : ConfigureQueryVersion("t1", answer)
    \/ ConfigureLock("t1")
    \/ ConfigureWrite("t1")
    \/ ConfigureInfo("t1")

SpecVersion == InitPublish /\ [][NextVersion]_vars

\* the frames delivered over the connections
ConnectFrames ==
    {Frame("badjson", <<>>, "", ""),
     Frame("batch", <<"pin">>, "", "")}

\* the plugin, the event loop and a transport that loses its connection and
\* reconnects
NextConnect ==
    \/ \E connectOK \in BOOLEAN, listenOK \in BOOLEAN, repliesOK \in BOOLEAN :
          Start(connectOK, listenOK, repliesOK)
    \/ ConnectionLost
    \/ \E listenOK \in BOOLEAN, repliesOK \in BOOLEAN :
          Reconnect(listenOK, repliesOK)
    \/ CancelCtx
    \/ LoopCtxDone
    \/ \E f \in ConnectFrames : LoopReceive(f)
    \/ LoopRouteLock
    \/ LoopMessage
    \/ \E answers \in Answers : LoopCallbackReturn(answers)
    \/ \E sendOK \in BOOLEAN : LoopAck(sendOK)
    \/ LoopContinue
    \/ LoopDeferClose
    \/ LoopDeferWsClose

SpecConnect == InitShutdown /\ [][NextConnect]_vars

\* the plugin after construction, facing a fresh connector or one that
\* kept its stream and subscription from an earlier run
InitStreams ==
    /\ conf = ConfTwo
    /\ inited = "no"
    /\ topic = ""
    /\ wsconn = "nil"
    /\ closedCh = "nil"
    /\ started = FALSE
    /\ ctxDone = FALSE
    /\ listeners = <<>>
    /\ pc = "none"
    /\ rcvCount = 0
    /\ cur = NoFrame
    /\ idx = 0
    /\ batchErr = "none"
    /\ calls = <<>>
    /\ lastCall = <<0, 0>>
    /\ connSent = <<>>
    /\ sent = <<>>
    /\ fireflyContract = EmptyTuple
    /\ mux = "free"
    /\ contracts = NewContracts
    /\ tpc = [t \in Tasks |-> "idle"]
    /\ tloc = [t \in Tasks |-> NoLocals]
    /\ tret = [t \in Tasks |-> NoReturn]
    /\ apiCalls = 0
    /\ connector \in {EmptyConnector, RestartedConnector}
    /\ fnIn = NoCall
    /\ fnOut = NoResult

NextStreams ==
    \/ \E tp \in StreamTopics, batchSize \in BatchSizes :
          EnsureEventStream(tp, batchSize)
    \/ \E location \in Locations, streamID \in 1..Cardinality(StreamTopics),
          eventName \in EventNames :
          EnsureFireFlySubscription(location, "0", streamID, eventName)

SpecStreams == InitStreams /\ [][NextStreams]_vars

\* the plugin's variables where no call of the plugin is being followed
Idle ==
    /\ conf = ConfTwo
    /\ inited = "no"
    /\ topic = ""
    /\ wsconn = "nil"
    /\ closedCh = "nil"
    /\ started = FALSE
    /\ ctxDone = FALSE
    /\ listeners = <<>>
    /\ pc = "none"
    /\ rcvCount = 0
    /\ cur = NoFrame
    /\ idx = 0
    /\ batchErr = "none"
    /\ calls = <<>>
    /\ lastCall = <<0, 0>>
    /\ connSent = <<>>
    /\ sent = <<>>
    /\ fireflyContract = EmptyTuple
    /\ mux = "free"
    /\ contracts = NewContracts
    /\ tpc = [t \in Tasks |-> "idle"]
    /\ tloc = [t \in Tasks |-> NoLocals]
    /\ tret = [t \in Tasks |-> NoReturn]
    /\ apiCalls = 0
    /\ connector = EmptyConnector

\* a batch pin the host is about to submit
InitPin ==
    /\ Idle
    /\ fnIn \in {[fn |-> "SubmitBatchPin", batch |-> b] : b \in BatchPins}
    /\ fnOut = NoResult

NextPin == SubmitThenReceive

SpecPin == InitPin /\ [][NextPin]_vars

\* a network action the host is about to submit
InitAction ==
    /\ Idle
    /\ fnIn \in {[fn |-> "SubmitNetworkAction", action |-> a] : a \in NetworkActions}
    /\ fnOut = NoResult

NextAction == SubmitActionThenReceive

SpecAction == InitAction /\ [][NextAction]_vars

\* the fields of a BatchPin event as the chaincode may emit them, well
\* formed or not
PinNamespaces ==
    {NsData, NsAction, FireFlyActionPrefix, <<"f", "i", "r", "e", "f", "l", "y">>}
PinUUIDs == {UUIDsGood, UUIDsShort, <<"0", "x", "z", "z">>}
PinHashes == {HashGood, HashBad, <<>>}
PinContexts == UNION {[1..n -> {CtxA, HashBad}] : n \in 0..MaxContexts}
PinOutputs ==
    {[namespace |-> ns, uuids |-> u, batchHash |-> h, payloadRef |-> "ref1",
      contexts |-> c] :
        ns \in PinNamespaces, u \in PinUUIDs, h \in PinHashes, c \in PinContexts}

\* handleMessageBatch on one BatchPin event of the active subscription
ReceivePinEvent ==
    /\ fnIn.fn = "handleBatchPinEvent"
    /\ ~fnOut.done
    /\ fnOut' = [done |-> TRUE,
                 event |-> RouteMessage(PinEvent(fnIn.output), Sub0)]
    /\ UNCHANGED <<fnIn, connector, conf, inited, topic, wsconn, closedCh,
                   started, ctxDone, listeners, pc, connSent>>
    /\ UNCHANGED loopVars
    /\ UNCHANGED contractVars

\* a BatchPin event is about to be handled
InitClassify ==
    /\ Idle
    /\ fnIn \in {[fn |-> "handleBatchPinEvent", output |-> o] : o \in PinOutputs}
    /\ fnOut = NoResult

NextClassify == ReceivePinEvent

SpecClassify == InitClassify /\ [][NextClassify]_vars

\* two events whose ProtocolIDs are about to be built
InitProtocolID ==
    /\ Idle
    /\ fnIn \in {[fn |-> "ProtocolID", a |-> a, b |-> b] :
                    a \in EventPositions, b \in EventPositions}
    /\ fnOut = NoResult

NextProtocolID == FormatProtocolIDs

SpecProtocolID == InitProtocolID /\ [][NextProtocolID]_vars

(***************************************************************************)
(* What the claims speak about.                                            *)
(***************************************************************************)
\* the host has bound deployment 0 of the configuration
Bound0 == fireflyContract = Tuple("cc0", "0", 1, Sub0)
ActiveSub == fireflyContract.subscription
BatchFrame == cur.kind = "batch"
Positions == IF BatchFrame THEN 1..Len(cur.msgs) ELSE {}
MsgAt(i) == Msg(cur.msgs[i])
CallsAt(i) == {k \in 1..Len(calls) : calls[k].idx = i}
InFlight == {k \in 1..Len(calls) : calls[k].res = "inflight"}
Acks == {k \in 1..Len(sent) : sent[k].type = "ack"}

\* position i has been handed to handleBatchPinEvent or handleContractEvent
Handled(i) ==
    /\ i \in Positions
    /\ MsgAt(i).obj
    /\ i < idx \/ (i = idx /\ (pc = "callback" \/ batchErr = "err"))

\* a 32-byte value on the wire: 0x and 64 hex characters
IsWireBytes32(s) ==
    /\ Len(s) = 2 * Bytes32Len + 2
    /\ s[1] = "0" /\ s[2] = "x"
    /\ \A j \in 3..Len(s) : IsHexDigit(s[j])
WireBytes(s) == [j \in 1..((Len(s) - 2) \div 2) |->
                    16 * HexVal(s[2 * j + 1]) + HexVal(s[2 * j + 2])]

PayloadDecodes(m) == m.payload = "ok"
IsAction(m) == HasPrefix(m.output.namespace, FireFlyActionPrefix)
WellFormedFields(m) ==
    /\ IsWireBytes32(m.output.uuids)
    /\ IsWireBytes32(m.output.batchHash)
    /\ \A j \in 1..Len(m.output.contexts) : IsWireBytes32(m.output.contexts[j])
OnActive(m) == m.obj /\ m.subId = ActiveSub /\ m.eventName = "BatchPin"

\* per message: a well-formed data pin, and what BatchPinComplete must receive
DataPinIds ==
    {id \in MsgIds : /\ MsgDef(id).obj /\ MsgDef(id).eventName = "BatchPin"
                     /\ PayloadDecodes(MsgDef(id)) /\ ~IsAction(MsgDef(id))
                     /\ WellFormedFields(MsgDef(id))}
ExpectedPin ==
    [id \in DataPinIds |->
        LET o == MsgDef(id).output
        IN  [Namespace |-> o.namespace,
             TransactionID |-> SubSeq(WireBytes(o.uuids), 1, 16),
             BatchID |-> SubSeq(WireBytes(o.uuids), 17, 32),
             BatchHash |-> WireBytes(o.batchHash),
             BatchPayloadRef |-> o.payloadRef,
             Contexts |-> [j \in 1..Len(o.contexts) |-> WireBytes(o.contexts[j])],
             signer |-> o.signer]]
ActionIds ==
    {id \in MsgIds : /\ MsgDef(id).obj /\ MsgDef(id).eventName = "BatchPin"
                     /\ PayloadDecodes(MsgDef(id)) /\ IsAction(MsgDef(id))}
DecodableIds == {id \in MsgIds : MsgDef(id).obj /\ PayloadDecodes(MsgDef(id))}
MalformedFieldIds ==
    {id \in MsgIds : /\ MsgDef(id).obj /\ MsgDef(id).eventName = "BatchPin"
                     /\ PayloadDecodes(MsgDef(id)) /\ ~IsAction(MsgDef(id))
                     /\ ~WellFormedFields(MsgDef(id))}

\* a message the dispatcher owes a callback
WellFormedAt(i) ==
    /\ MsgAt(i).obj
    /\ cur.msgs[i] \in DecodableIds
    /\ \/ MsgAt(i).subId # ActiveSub
       \/ /\ MsgAt(i).eventName = "BatchPin"
          /\ cur.msgs[i] \in DataPinIds \cup ActionIds
\* a message that cannot be decoded
MalformedAt(i) ==
    \/ ~MsgAt(i).obj
    \/ cur.msgs[i] \notin DecodableIds
    \/ MsgAt(i).subId = ActiveSub /\ cur.msgs[i] \in MalformedFieldIds

(* C1: every well-formed message of an acknowledged batch, at every        *)
(* position, has had its callback invoked and returned without error       *)
(* before the ack was sent.                                                *)
C1_AckedBatchDelivered ==
    (BatchFrame /\ Acks # {}) =>
        \A i \in Positions :
            WellFormedAt(i) => \E k \in CallsAt(i) : calls[k].res = "nil"

LexLess(a, b) == a[1] < b[1] \/ (a[1] = b[1] /\ a[2] < b[2])
AnyErr == \E k \in 1..Len(calls) : calls[k].res = "err"

(* C3: callbacks are delivered one at a time and in order: at most one     *)
(* callback is in flight; within a batch they follow array order and       *)
(* across frames arrival order; while a callback is in flight the loop     *)
(* sends no ack, takes no frame and starts no other message.               *)
C3_Sequential ==
    /\ [](/\ Cardinality(InFlight) <= 1
          /\ InFlight # {} => (pc = "callback" /\ InFlight = {Len(calls)})
          /\ \A j, k \in 1..Len(calls) : j < k => calls[j].idx < calls[k].idx)
    /\ [][/\ InFlight # {} =>
                /\ sent' = sent
                /\ rcvCount' = rcvCount
                /\ cur' = cur
                /\ Len(calls') = Len(calls)
                /\ idx' # idx => InFlight' = {}
          /\ lastCall' # lastCall =>
                /\ LexLess(lastCall, lastCall')
                /\ InFlight = {}
                /\ lastCall' = <<rcvCount', calls'[Len(calls')].idx>>
          /\ Len(calls') > Len(calls) => (BatchFrame => lastCall' # lastCall)
         ]_vars

C3_Witness ==
    /\ Bound0
    /\ rcvCount = 2
    /\ pc = "callback"
    /\ Len(calls) = 2
    /\ calls[1].res = "nil"
    /\ calls[2].res = "inflight"

(* C4: a callback error makes handleMessageBatch return the error: no      *)
(* later message of the batch is dispatched, no ack is sent, the callback  *)
(* is not retried, and the event loop exits.                               *)
C4_CallbackErrorExits ==
    /\ [](AnyErr =>
            /\ batchErr = "err"
            /\ pc = "deferClose"
            /\ sent = <<>>
            /\ calls[Len(calls)].res = "err"
            /\ calls[Len(calls)].idx = idx
            /\ Cardinality(CallsAt(idx)) = 1
            /\ \A k \in 1..(Len(calls) - 1) :
                    calls[k].res = "nil" /\ calls[k].idx < idx)
    /\ [][/\ (AnyErr /\ pc' # pc) => (pc' = "deferWsClose" /\ closedCh' = "closed")
          /\ pc \in {"deferWsClose", "exited"} =>
                /\ pc' \in {"deferWsClose", "exited"}
                /\ calls' = <<>>
                /\ sent' = <<>>
                /\ rcvCount' = rcvCount
         ]_vars

C4_Witness ==
    /\ Bound0
    /\ batchErr = "err"
    /\ Len(cur.msgs) = 2
    /\ idx = 1
    /\ calls[1].kind = "BatchPinComplete"
    /\ cur.msgs[2] = "pin"

(* C5: the loop sends exactly one ack, naming the configured topic, for    *)
(* each batch frame whose processing returned no error (the empty batch    *)
(* included) and none for any other frame.                                 *)
C5_AckPerBatch ==
    /\ \A k \in 1..Len(sent) : sent[k].type = "ack" /\ sent[k].topic = topic
    /\ Len(sent) <= 1
    /\ sent # <<>> => (BatchFrame /\ batchErr = "nil")
    /\ (BatchFrame /\ batchErr = "nil" /\ pc # "ack") => Len(sent) = 1
    /\ ~BatchFrame => sent = <<>>
    /\ \A k \in 1..Len(connSent) : connSent[k].type # "ack"

C5_Witness ==
    /\ pc = "continue"
    /\ BatchFrame
    /\ cur.msgs = <<>>
    /\ sent = <<SendRec("ack", "topic1", TRUE)>>

(* C6: a batch with one malformed message at any position among N          *)
(* well-formed messages yields N-1 successful callbacks and no error.      *)
C6_OneMalformedSkipped ==
    (/\ BatchFrame
     /\ batchErr # "none"
     /\ Cardinality({i \in Positions : MalformedAt(i)}) = 1
     /\ \A i \in Positions : MalformedAt(i) \/ WellFormedAt(i)
     /\ ~AnyErr) =>
        /\ batchErr = "nil"
        /\ Cardinality({k \in 1..Len(calls) : calls[k].res = "nil"})
                = Len(cur.msgs) - 1

C9_NothingBeforeStart ==
    ~started =>
        /\ rcvCount = 0
        /\ cur = NoFrame
        /\ calls = <<>>
        /\ lastCall = <<0, 0>>

C9_Witness ==
    /\ inited = "ok"
    /\ pc = "select"
    /\ ~started
    /\ listeners = <<"l1">>

\* task t takes a step of TerminateContract up to and including the return
\* on a contract identifier that differs
TerminatePrefixStep(t) ==
    /\ tpc'[t] # tpc[t]
    /\ \/ tpc'[t] \in {"termLock", "termRead", "termCheck"}
       \/ tpc[t] = "termCheck" /\ tpc'[t] = "idle"

(* C10: TerminateContract with an event whose contract identifier differs  *)
(* from the active one (as read under the lock) returns nil, changes       *)
(* neither the contracts record nor the runtime tuple, and makes no        *)
(* management-API call; it returns that way exactly when they differ.      *)
C10_TerminateMismatchIgnored ==
    /\ [](\A t \in Tasks :
            /\ tret[t].ignored =>
                    /\ tret[t].op = "terminate"
                    /\ tret[t].err = "nil"
                    /\ ~tret[t].touched
            /\ tpc[t] = "idle" => mux # t)
    /\ [][\A t \in Tasks :
            /\ TerminatePrefixStep(t) =>
                    /\ contracts' = contracts
                    /\ fireflyContract' = fireflyContract
                    /\ apiCalls' = apiCalls
            /\ (tpc[t] = "termCheck" /\ tpc'[t] # tpc[t]) =>
                    ((tloc[t].termChaincode # tloc[t].fireflyChaincode)
                        <=> (tpc'[t] = "idle" /\ tret'[t].ignored))
         ]_vars

C10_Witness ==
    /\ \E t \in Tasks : tret[t].ignored /\ tret[t].op = "terminate"
    /\ fireflyContract = Tuple("cc0", "0", 2, Sub0)
    /\ contracts = [Active |-> ContractInfo(0, Info("cc0", "0", Sub0), ""),
                    Terminated |-> <<>>]
    /\ apiCalls = 3

\* no task other than t has made a lifecycle call
Alone(t) == \A u \in Tasks \ {t} : tpc[u] = "idle" /\ tret[u].count = 0

(* C11: a TerminateContract whose event names the active contract, run    *)
(* with no other lifecycle call alongside, raises Active.Index by one,     *)
(* appends to Terminated exactly the previous Active record with           *)
(* FinalEvent set to the event's ProtocolID, and, the next slot being      *)
(* configured and the connector answering, returns nil with Active.Info    *)
(* and the runtime tuple naming that slot and its subscription.            *)
C11_TerminateAdvances ==
    [][\A t \in Tasks :
        (Alone(t) /\ tloc[t].op = "terminate") =>
            /\ (tpc[t] = "termFinal" /\ tpc'[t] # tpc[t]) =>
                    /\ contracts'.Active.Index = contracts.Active.Index + 1
                    /\ contracts'.Terminated =
                            Append(contracts.Terminated,
                                   [Index |-> contracts.Active.Index,
                                    Info |-> contracts.Active.Info,
                                    FinalEvent |-> tloc[t].termProtocolID])
            /\ (tpc[t] \in {"resolve", "ensureSub", "version", "confLock",
                            "confWrite", "confInfo"} /\ tpc'[t] # tpc[t]) =>
                    /\ contracts'.Terminated = contracts.Terminated
                    /\ contracts'.Active.Index = contracts.Active.Index
                    /\ contracts'.Terminated[Len(contracts'.Terminated)].FinalEvent
                            = tloc[t].termProtocolID
            /\ (tpc[t] = "confInfo" /\ tpc'[t] = "idle") =>
                    LET i == contracts.Active.Index
                    IN  /\ tret'[t].err = "nil"
                        /\ i < conf.size
                        /\ contracts'.Active =
                                [Index |-> i,
                                 Info |-> Info(conf.slots[i + 1].chaincode,
                                               conf.slots[i + 1].fromBlock,
                                               tloc[t].sub),
                                 FinalEvent |-> ""]
                        /\ fireflyContract' =
                                Tuple(conf.slots[i + 1].chaincode,
                                      conf.slots[i + 1].fromBlock,
                                      tloc[t].version, tloc[t].sub)
            /\ (tpc[t] # "idle" /\ tpc'[t] = "idle" /\ tret'[t].err = "nil"
                    /\ ~tret'[t].ignored) => tpc[t] = "confInfo"
      ]_vars

C11_Witness ==
    /\ conf = ConfTwo
    /\ tret["t1"].op = "terminate"
    /\ tret["t1"].err = "nil"
    /\ ~tret["t1"].ignored
    /\ Alone("t1")
    /\ fireflyContract = Tuple("cc1", "5", 2, Sub1)
    /\ contracts = [Active |-> ContractInfo(1, Info("cc1", "5", Sub1), ""),
                    Terminated |-> <<ContractInfo(0, Info("cc0", "0", Sub0), "p1")>>]

\* the lifecycle calls made so far were made one after the other
SerialSoFar == \E t \in Tasks : Alone(t)

(* C12: over a sequence of ConfigureContract and TerminateContract calls   *)
(* on one record the chain only moves forward: Terminated grows by         *)
(* appending and its entries never change, Active.Index never decreases,   *)
(* and Active.Index exceeds the Index of every Terminated entry.           *)
C12_ForwardOnly ==
    /\ [](SerialSoFar =>
            \A k \in 1..Len(contracts.Terminated) :
                /\ contracts.Terminated[k].Index < contracts.Active.Index
                /\ k > 1 => contracts.Terminated[k - 1].Index
                                < contracts.Terminated[k].Index)
    /\ [][SerialSoFar =>
            /\ Len(contracts'.Terminated) >= Len(contracts.Terminated)
            /\ SubSeq(contracts'.Terminated, 1, Len(contracts.Terminated))
                    = contracts.Terminated
            /\ contracts'.Active.Index >= contracts.Active.Index
         ]_vars

C12_Witness ==
    /\ Alone("t1")
    /\ tret["t1"].count = 3
    /\ Len(contracts.Terminated) = 2
    /\ contracts.Terminated[1] = ContractInfo(0, Info("cc0", "0", Sub0), "p1")
    /\ contracts.Terminated[2].Index = 1
    /\ contracts.Active.Index = 2

\* no lifecycle call is running
Quiescent == \A t \in Tasks : tpc[t] = "idle"

\* what every serial run leaves behind: a bound Active record is that of the
\* configured slot Active.Index and agrees with the runtime tuple
SerialOutcome ==
    contracts.Active.Info # NoInfo =>
        /\ contracts.Active.Info = Info(fireflyContract.chaincode,
                                        fireflyContract.fromBlock,
                                        fireflyContract.subscription)
        /\ conf.size > 0 =>
                /\ contracts.Active.Index < conf.size
                /\ contracts.Active.Info.chaincode
                        = conf.slots[contracts.Active.Index + 1].chaincode

(* C13: ConfigureContract and TerminateContract calls that run             *)
(* concurrently on one record leave the record and the runtime tuple as    *)
(* some serial order of the calls would.                                   *)
C13_SerialOutcome == Quiescent => SerialOutcome

\* the same outcome, for the runs in which the calls were made one by one
C13_SerialRuns == (SerialSoFar /\ Quiescent) => SerialOutcome

\* positions at which a host task reads or writes the tuple in memory
MemoryPositions == {"termRead", "confWrite", "subRead", "nvRead"}

\* positions at which a host task is waiting for the connector
NetworkPositions == {"ensureSub", "version", "subInvoke"}

\* the event loop is inside a listener callback or a websocket send
LoopOnNetwork == pc \in {"callback", "ack"}

\* C14: while a task holds fireflyContract.mux it is at an in-memory read or
\* write of the tuple, never at a connector request, a websocket send or a
\* listener callback; the holder's next step releases the lock and makes no
\* request, send or callback, so a waiting event loop gets the lock after
\* at most one step of each other task
C14_LockOnlyInMemory ==
    /\ [](/\ \A t \in Tasks : mux = t => tpc[t] \in MemoryPositions
          /\ mux = "loop" => pc = "route"
          /\ mux \in Tasks \cup {"loop", "free"})
    /\ [][/\ \A t \in Tasks :
               (mux = t /\ tpc'[t] # tpc[t]) =>
                  /\ mux' = "free"
                  /\ apiCalls' = apiCalls
                  /\ sent' = sent
                  /\ connSent' = connSent
                  /\ calls' = calls
          /\ (mux = "loop" /\ pc' # pc) =>
                  /\ mux' = "free"
                  /\ apiCalls' = apiCalls
                  /\ sent' = sent
                  /\ connSent' = connSent
                  /\ \A i \in 1..Len(calls) : calls'[i] = calls[i]
          /\ (mux # "free" /\ mux' # mux) => mux' = "free"]_vars

\* C14 witness: the event loop is about to take the lock for routing while
\* a SubmitBatchPin call holds it and the other task waits on the connector
C14_Witness ==
    /\ pc = "batch"
    /\ idx = 1
    /\ mux = "t1"
    /\ tpc["t1"] = "subRead"
    /\ tloc["t1"].op = "submitBatchPin"
    /\ tpc["t2"] = "version"
    /\ fireflyContract = EmptyTuple

\* tasks now at a read or a write of the tuple, the event loop included
Accessors ==
    {t \in Tasks : tpc[t] \in MemoryPositions}
        \cup (IF pc = "route" THEN {"loop"} ELSE {})

\* C15: a task at a read or write of the tuple, on any of the six paths,
\* holds fireflyContract.mux, so no two tasks are there at once; the tuple
\* changes only in a step of the lock holder, and the value NetworkVersion
\* and the submit calls take is the tuple's value while they hold the lock
C15_AccessUnderLock ==
    /\ [](/\ \A a \in Accessors : mux = a
          /\ Cardinality(Accessors) <= 1)
    /\ [][/\ fireflyContract' # fireflyContract =>
               \E t \in Tasks : /\ mux = t
                                /\ tpc[t] = "confWrite"
                                /\ tpc'[t] = "confInfo"
          /\ \A t \in Tasks :
               /\ (tpc[t] = "nvRead" /\ tpc'[t] = "idle") =>
                     /\ mux = t
                     /\ tret'[t].value = fireflyContract.networkVersion
               /\ (tpc[t] = "subRead" /\ tpc'[t] = "subInvoke") =>
                     /\ mux = t
                     /\ tloc'[t].chaincode = fireflyContract.chaincode
               /\ (tpc[t] = "termRead" /\ tpc'[t] = "termCheck") =>
                     /\ mux = t
                     /\ tloc'[t].fireflyChaincode = fireflyContract.chaincode
          /\ (pc = "route" /\ pc' # "route") => mux = "loop"]_vars

\* C15 witness: NetworkVersion returns the version a ConfigureContract call
\* wrote, after waiting for that call to release the lock
C15_Witness ==
    /\ tret["t1"].op = "networkVersion"
    /\ tret["t1"].value = 1
    /\ tret["t2"].op = "configure"
    /\ tret["t2"].err = "nil"
    /\ fireflyContract.networkVersion = 1
    /\ mux = "free"

\* the event loop has returned and both deferred closes have run
ShutDown == pc = "exited" /\ closedCh = "closed" /\ wsconn = "closed"

\* C16: once the context is cancelled or the receive channel is closed, the
\* event loop eventually returns with the transport and the closed channel
\* closed; each of the two is closed once (the loop reaches each deferred
\* close with its target still open, and never runs again after returning);
\* after closed is signalled the loop invokes no callback and sends no frame
C16_ShutdownCompletes ==
    /\ (ctxDone \/ wsconn = "recvClosed") ~> ShutDown
    /\ [](/\ pc = "deferClose" => closedCh = "open"
          /\ pc = "deferWsClose" => (closedCh = "closed" /\ wsconn # "closed")
          /\ closedCh = "closed" => pc \in {"deferWsClose", "exited"}
          /\ wsconn = "closed" => pc = "exited")
    /\ [][/\ pc = "exited" => pc' = "exited"
          /\ closedCh = "closed" =>
               /\ closedCh' = "closed"
               /\ calls' = calls
               /\ sent' = sent
               /\ mux' = mux
          /\ wsconn = "closed" => wsconn' = "closed"]_vars

\* C16 witness: the context was cancelled while a batch was being handled,
\* after a frame had already been acknowledged, and the loop has shut down
C16_Witness ==
    /\ ShutDown
    /\ ctxDone
    /\ rcvCount = 2
    /\ started
    /\ Bound0

\* C16 witness, other cause: the receive channel was closed, no cancellation
C16_WitnessRecvClosed == ShutDown /\ ~ctxDone /\ rcvCount >= 1

\* the frame in hand is not JSON, or is JSON but neither array nor object
BadFrame == cur.kind \in {"badjson", "other"}

\* the loop is between frames with nothing left over from the last one
AtSelectClean ==
    /\ cur = NoFrame
    /\ idx = 0
    /\ calls = <<>>
    /\ sent = <<>>
    /\ batchErr = "none"

\* C17: a frame that is not valid JSON, or is neither an array nor an
\* object, leaves the loop running: it goes straight to the next iteration
\* with no callback, no ack and no error, and is back at its select in the
\* state it had before the frame (listeners, tuple, transport, closed
\* channel and last delivered event unchanged), ready for the next frame
C17_BadFrameSkipped ==
    /\ [](/\ (pc = "select" /\ inited = "ok") => AtSelectClean
          /\ BadFrame => (/\ pc = "continue"
                          /\ calls = <<>>
                          /\ sent = <<>>
                          /\ batchErr = "none"
                          /\ closedCh = "open"
                          /\ wsconn = "connected"))
    /\ [][/\ (BadFrame' /\ ~BadFrame) =>
               /\ pc = "select"
               /\ rcvCount' = rcvCount + 1
               /\ <<listeners, fireflyContract, mux, lastCall, connSent,
                    wsconn, closedCh, contracts>>' =
                  <<listeners, fireflyContract, mux, lastCall, connSent,
                    wsconn, closedCh, contracts>>
          /\ (BadFrame /\ pc' # pc) =>
               /\ pc' = "select"
               /\ AtSelectClean'
               /\ <<listeners, fireflyContract, mux, lastCall, connSent,
                    wsconn, closedCh, contracts, rcvCount>>' =
                  <<listeners, fireflyContract, mux, lastCall, connSent,
                    wsconn, closedCh, contracts, rcvCount>>]_vars

\* C17 witness: an unparseable frame has just been skipped, after a batch
\* whose event was delivered, with the deployment bound
C17_Witness ==
    /\ Bound0
    /\ cur.kind = "badjson"
    /\ pc = "continue"
    /\ rcvCount = 2
    /\ lastCall = <<1, 1>>

\* the same for JSON that is neither an array nor an object, as first frame
C17_WitnessOther == cur.kind = "other" /\ pc = "continue" /\ rcvCount = 1

\* the callbacks that return an error to the plugin
ErrorCallbacks == {"BatchPinComplete", "BlockchainNetworkAction", "BlockchainEvent"}

\* calls of the frame in hand that have returned
Returned == {k \in 1..Len(calls) : calls[k].res # "inflight"}

\* C18: an event is handed to the registered listeners in registration
\* order.  For BatchPinComplete, BlockchainNetworkAction and BlockchainEvent
\* the listeners called are those up to and including the first one that
\* returns an error, that error is the result and no later listener is
\* called; if none fails all are called and the result is nil, in particular
\* with no listener registered.  BlockchainOpUpdate reaches every listener.
C18_OrderedFanOut ==
    /\ [](\A k \in Returned :
            LET c == calls[k]
                n == Len(c.invoked)
            IN  /\ n <= Len(listeners)
                /\ \A i \in 1..n : c.invoked[i] = listeners[i]
                /\ c.kind \in ErrorCallbacks \cup {"BlockchainOpUpdate"}
                /\ c.kind = "BlockchainOpUpdate" =>
                      (c.invoked = listeners /\ c.res = "nil")
                /\ c.kind \in ErrorCallbacks =>
                      /\ Len(c.answers) = Len(listeners)
                      /\ \A i \in 1..(n - 1) : c.answers[i] = "nil"
                      /\ c.res = "err" <=> (n >= 1 /\ c.answers[n] = "err")
                      /\ c.res = "nil" <=> n = Len(listeners)
                                              /\ \A i \in 1..n : c.answers[i] = "nil"
                      /\ listeners = <<>> => (c.res = "nil" /\ c.invoked = <<>>))
    /\ [][listeners' # listeners =>
            /\ Len(listeners') = Len(listeners) + 1
            /\ SubSeq(listeners', 1, Len(listeners)) = listeners
            /\ calls = <<>>]_vars

\* C18 witness: two listeners, the first fails on a batch pin and the
\* second, which would have accepted it, is not called
C18_Witness ==
    /\ Bound0
    /\ listeners = <<"l1", "l2">>
    /\ calls # <<>>
    /\ calls[1].kind = "BatchPinComplete"
    /\ calls[1].res = "err"
    /\ calls[1].invoked = <<"l1">>
    /\ calls[1].answers = <<"err", "nil">>

\* no listener registered: the event is processed without error
C18_WitnessNoListener ==
    /\ Bound0
    /\ listeners = <<>>
    /\ calls # <<>>
    /\ calls[1].kind = "BlockchainEvent"
    /\ calls[1].res = "nil"
    /\ sent # <<>>

\* a receipt reaches both listeners
C18_WitnessOpUpdate ==
    /\ calls # <<>>
    /\ calls[1].kind = "BlockchainOpUpdate"
    /\ calls[1].invoked = <<"l1", "l2">>

\* the frame in hand is a receipt (a JSON object)
ReceiptFrame == cur.kind = "receipt"

\* C19: a receipt whose headers hold a non-empty requestId and a non-empty
\* type gives exactly one BlockchainOpUpdate, for that requestId, with
\* status Succeeded if the type is TransactionSuccess and Failed for any
\* other type; a receipt lacking either gives none; BlockchainOpUpdate is
\* invoked for receipts only; in every case no ack is sent, no error is
\* raised and the loop goes on to its next select
C19_ReceiptUpdate ==
    /\ [](/\ ReceiptFrame =>
               /\ pc = "continue"
               /\ sent = <<>>
               /\ batchErr = "none"
               /\ closedCh = "open"
               /\ IF cur.requestId # "" /\ cur.type # ""
                  THEN /\ Len(calls) = 1
                       /\ calls[1].kind = "BlockchainOpUpdate"
                       /\ calls[1].arg.nsOpID = cur.requestId
                       /\ calls[1].arg.status = "Succeeded"
                             <=> cur.type = "TransactionSuccess"
                       /\ calls[1].arg.status = "Failed"
                             <=> cur.type # "TransactionSuccess"
                  ELSE calls = <<>>
          /\ \A k \in 1..Len(calls) :
               calls[k].kind = "BlockchainOpUpdate" => ReceiptFrame)
    /\ [][(ReceiptFrame /\ pc' # pc) => (pc' = "select" /\ AtSelectClean')]_vars

\* C19 witness: a reply of type Error for request op1 has been reported
\* as failed to the registered listener
C19_Witness ==
    /\ ReceiptFrame
    /\ cur.requestId = "op1"
    /\ cur.type = "Error"
    /\ listeners = <<"l1">>
    /\ Len(calls) = 1
    /\ calls[1].arg.status = "Failed"
    /\ calls[1].invoked = <<"l1">>

\* a successful reply, and a reply without a requestId
C19_WitnessSuccess ==
    /\ ReceiptFrame
    /\ cur.type = "TransactionSuccess"
    /\ calls # <<>>
    /\ calls[1].arg.status = "Succeeded"
C19_WitnessNoRequest ==
    /\ ReceiptFrame
    /\ cur.requestId = ""
    /\ cur.type = "TransactionSuccess"
    /\ calls = <<>>

\* streams of the connector listening on a topic; subscriptions with a name
StreamsOn(c, tp) == {i \in 1..Len(c.streams) : c.streams[i].topic = tp}
SubsNamed(c, name) == {i \in 1..Len(c.subs) : c.subs[i].name = name}

\* the step is an ensure call
EnsureStep == connector'.calls = connector.calls + 1

\* C20: ensure-exists is idempotent.  The connector never holds two streams
\* for one topic nor two subscriptions of one name.  An ensure call that
\* finds its stream or subscription issues no create request, adds nothing
\* and returns the existing ID; after any ensure call exactly one stream or
\* subscription has the key and its ID is the one returned.  A call with
\* the arguments of the call before it changes nothing on the connector
\* (nothing created, nothing patched) and returns the same ID.
C20_EnsureIdempotent ==
    /\ [](/\ \A tp \in StreamTopics : Cardinality(StreamsOn(connector, tp)) <= 1
          /\ \A l \in Locations, e \in EventNames :
                Cardinality(SubsNamed(connector, SubName(l, e))) <= 1)
    /\ [][EnsureStep =>
            LET l == connector'.last
                isStream == l.op = "ensureEventStream"
                before == IF isStream THEN StreamsOn(connector, l.key[1])
                                      ELSE SubsNamed(connector, l.key)
                after == IF isStream THEN StreamsOn(connector', l.key[1])
                                     ELSE SubsNamed(connector', l.key)
                IdAt(c, i) == IF isStream THEN c.streams[i].id ELSE c.subs[i].id
            IN  /\ Cardinality(after) = 1
                /\ \A i \in after : IdAt(connector', i) = l.id
                /\ l.created <=> before = {}
                /\ connector'.posts = connector.posts + (IF l.created THEN 1 ELSE 0)
                /\ before # {} =>
                      /\ Len(connector'.streams) = Len(connector.streams)
                      /\ connector'.subs = connector.subs
                      /\ \A i \in before : IdAt(connector, i) = l.id
                /\ (connector.last.op = l.op /\ connector.last.args = l.args) =>
                      /\ connector'.streams = connector.streams
                      /\ connector'.subs = connector.subs
                      /\ connector'.posts = connector.posts
                      /\ connector'.patches = connector.patches
                      /\ l.id = connector.last.id
                      /\ ~l.created]_vars

\* C20 witness: on a fresh connector the stream and the subscription were
\* created, then the same subscription was ensured again and reused
C20_Witness ==
    /\ connector.calls = 3
    /\ connector.posts = 2
    /\ Len(connector.streams) = 1
    /\ Len(connector.subs) = 1
    /\ connector.last.op = "ensureFireFlySubscription"
    /\ ~connector.last.created
    /\ connector.last.id = 1

\* the same for the stream: ensured twice, created once, never patched
C20_WitnessStream ==
    /\ connector.calls = 2
    /\ connector.posts = 1
    /\ connector.patches = 0
    /\ Len(connector.streams) = 1
    /\ connector.last.op = "ensureEventStream"
    /\ ~connector.last.created

\* the round trip has been made for a batch pin that is not an action
PinRoundTrip ==
    /\ fnIn.fn = "SubmitBatchPin"
    /\ fnOut.done
    /\ ~HasPrefix(fnIn.batch.Namespace, FireFlyActionPrefix)

\* the event was delivered as a BatchPinComplete equal to the batch pin
SamePin ==
    /\ fnOut.event.dispatch
    /\ fnOut.event.kind = "BatchPinComplete"
    /\ fnOut.event.arg.Namespace = fnIn.batch.Namespace
    /\ fnOut.event.arg.TransactionID = fnIn.batch.TransactionID
    /\ fnOut.event.arg.BatchID = fnIn.batch.BatchID
    /\ fnOut.event.arg.BatchHash = fnIn.batch.BatchHash
    /\ fnOut.event.arg.BatchPayloadRef = fnIn.batch.BatchPayloadRef
    /\ fnOut.event.arg.Contexts = fnIn.batch.Contexts

\* no hash pointer of the batch pin is nil
NoNilHash ==
    /\ fnIn.batch.BatchHash # Nil
    /\ \A i \in 1..Len(fnIn.batch.Contexts) : fnIn.batch.Contexts[i] # Nil

\* C21 as stated: every batch pin that is not an action comes back from the
\* round trip with the same TransactionID, BatchID, BatchHash,
\* BatchPayloadRef and Contexts
C21_RoundTripAll == PinRoundTrip => SamePin

\* C21 amended: the uuids, batchHash and contexts are encoded as 0x and 64
\* hex characters, the uuids holding TransactionID then BatchID; a batch pin
\* that is not an action and has no nil hash comes back equal, contexts in
\* the same order; a nil BatchHash or context entry is encoded as 32 zero
\* bytes and comes back as the zero hash, not as nil
C21_RoundTrip ==
    PinRoundTrip =>
        /\ IsWireBytes32(fnOut.input.uuids)
        /\ WireBytes(fnOut.input.uuids) =
              fnIn.batch.TransactionID \o fnIn.batch.BatchID
        /\ IsWireBytes32(fnOut.input.batchHash)
        /\ \A i \in 1..Len(fnOut.input.contexts) :
              IsWireBytes32(fnOut.input.contexts[i])
        /\ fnOut.event.dispatch
        /\ fnOut.event.kind = "BatchPinComplete"
        /\ NoNilHash => SamePin
        /\ fnIn.batch.BatchHash = Nil =>
              fnOut.event.arg.BatchHash = Rep(0, Bytes32Len)
        /\ Len(fnOut.event.arg.Contexts) = Len(fnIn.batch.Contexts)
        /\ \A i \in 1..Len(fnIn.batch.Contexts) :
              fnOut.event.arg.Contexts[i] =
                 IF fnIn.batch.Contexts[i] = Nil THEN Rep(0, Bytes32Len)
                                                 ELSE fnIn.batch.Contexts[i]

\* C21 witness: a batch pin with different transaction and batch IDs and
\* two different contexts has come back equal
C21_Witness ==
    /\ PinRoundTrip
    /\ NoNilHash
    /\ SamePin
    /\ fnIn.batch.TransactionID = ByteString("mixed", UUIDLen)
    /\ fnIn.batch.BatchID = ByteString("ones", UUIDLen)
    /\ fnIn.batch.Contexts =
          <<ByteString("mixed", Bytes32Len), ByteString("zero", Bytes32Len)>>

\* byte order of the characters a ProtocolID is made of
CharCode(c) == IF c = "/" THEN 47 ELSE 48 + HexVal(c)

\* s sorts before t as a string
StrLess(s, t) ==
    \E k \in 1..(Len(t)) :
        /\ k <= Len(s) + 1
        /\ \A j \in 1..(k - 1) : s[j] = t[j]
        /\ k = Len(s) + 1 \/ CharCode(s[k]) < CharCode(t[k])

\* numeric order of int64 values and of event positions
Int64Less(v, w) == v[1] < w[1] \/ (v[1] = w[1] /\ v[2] < w[2])
PositionLess(a, b) ==
    \/ Int64Less(a.blockNumber, b.blockNumber)
    \/ /\ a.blockNumber = b.blockNumber
       /\ \/ Int64Less(a.transactionIndex, b.transactionIndex)
          \/ /\ a.transactionIndex = b.transactionIndex
             /\ Int64Less(a.eventIndex, b.eventIndex)

\* block < 10^12, transaction index < 10^6, event index < 10^6
InWidth(a) ==
    /\ a.blockNumber[1] < Limb
    /\ a.transactionIndex[1] = 0
    /\ a.eventIndex[1] = 0

\* C22: for two events whose block number, transaction index and event
\* index are within the field widths, the ProtocolIDs are 12, 6 and 6
\* digits separated by "/", they sort as strings in the numeric order of
\* the triples, and they are equal only if the triples are equal
C22_ProtocolIDOrder ==
    (fnIn.fn = "ProtocolID" /\ fnOut.done /\ InWidth(fnIn.a) /\ InWidth(fnIn.b)) =>
        /\ Len(fnOut.a) = BlockDigits + IndexDigits + IndexDigits + 2
        /\ fnOut.a[BlockDigits + 1] = "/"
        /\ fnOut.a[BlockDigits + IndexDigits + 2] = "/"
        /\ StrLess(fnOut.a, fnOut.b) <=> PositionLess(fnIn.a, fnIn.b)
        /\ fnOut.a = fnOut.b <=> fnIn.a = fnIn.b

\* C22 witness: the last event of block 999999 and the first of block
\* 1000000, in that order as strings too
C22_Witness ==
    /\ fnIn.fn = "ProtocolID"
    /\ fnOut.done
    /\ fnIn.a = [blockNumber |-> <<0, 999999>>, transactionIndex |-> <<0, 999999>>,
                 eventIndex |-> <<0, 999999>>]
    /\ fnIn.b = [blockNumber |-> <<1, 0>>, transactionIndex |-> <<0, 0>>,
                 eventIndex |-> <<0, 0>>]
    /\ fnOut.a = PadLeft(<<"9", "9", "9", "9", "9", "9">>, BlockDigits)
                    \o <<"/", "9", "9", "9", "9", "9", "9">>
                    \o <<"/", "9", "9", "9", "9", "9", "9">>
    /\ StrLess(fnOut.a, fnOut.b)

\* beyond the widths the order is lost: index 1000000 sorts before 200000
C22_BeyondWidth ==
    /\ fnIn.fn = "ProtocolID"
    /\ fnOut.done
    /\ fnIn.a.blockNumber = fnIn.b.blockNumber
    /\ fnIn.a.transactionIndex = <<1, 0>>
    /\ fnIn.b.transactionIndex = <<0, 200000>>
    /\ StrLess(fnOut.a, fnOut.b)


(***************************************************************************)
(* C23: every connection is set up by the hook before it delivers.         *)
(***************************************************************************)
\* what the step has appended to the commands sent by the hook
HookSent == SubSeq(connSent', Len(connSent) + 1, Len(connSent'))
ListenThenReplies ==
    <<SendRec("listen", topic, TRUE), SendRec("listenreplies", "", TRUE)>>

\* C23: on every connect and reconnect the hook sends listen for the topic
\* and then listenreplies, and only a connection set up this way delivers
\* frames to the event loop; when the listen send fails nothing else is
\* sent and the hook's error keeps the connection from being used
C23_ListenBeforeFrames ==
    /\ [][wsconn' = "connected" /\ wsconn # "connected"
            => HookSent = ListenThenReplies]_vars
    /\ [][connSent' # connSent
            => /\ Len(connSent') > Len(connSent)
               /\ SubSeq(connSent', 1, Len(connSent)) = connSent
               /\ HookSent[1].type = "listen"
               /\ HookSent[1].topic = topic
               /\ IF HookSent[1].ok
                  THEN /\ Len(HookSent) = 2
                       /\ HookSent[2].type = "listenreplies"
                       /\ ~HookSent[2].ok => wsconn' # "connected"
                  ELSE /\ Len(HookSent) = 1
                       /\ wsconn' # "connected"]_vars
    /\ [][rcvCount' # rcvCount => wsconn = "connected"]_vars

\* a frame of a reconnected transport is being handled, after an attempt
\* whose listen command could not be sent
C23_Witness ==
    /\ wsconn = "connected"
    /\ Hooks = 3
    /\ \E k \in 1..Len(connSent) :
          connSent[k].type = "listen" /\ ~connSent[k].ok
    /\ pc = "batch"
    /\ rcvCount = 1

(***************************************************************************)
(* C24: a ConfigureContract that fails has written nothing.                *)
(***************************************************************************)
\* the statements of ConfigureContract that can fail, and all of them
FailingStages == {"resolve", "ensureSub", "version"}
ConfigureStages == FailingStages \cup {"confLock", "confWrite", "confInfo"}
ConfigureErrors == {"invalidIndex", "missingConfig", "subErr", "versionErr"}

\* C24: the statements of ConfigureContract up to and including the
\* network version query leave the tuple and the contracts record as they
\* are, a call that returns an error returns from one of them with that
\* error, and a call that got past them returns nil
C24_FailedConfigureChangesNothing ==
    [][\A t \in Tasks :
          /\ tpc[t] \in FailingStages /\ tpc'[t] # tpc[t]
                => /\ fireflyContract' = fireflyContract
                   /\ contracts' = contracts
          /\ tpc[t] \in ConfigureStages /\ tpc'[t] = "idle"
                => IF tpc[t] \in FailingStages
                   THEN tret'[t].err \in ConfigureErrors
                   ELSE tret'[t].err = "nil"]_vars

\* a ConfigureContract has failed at the version query after an earlier one
\* had published a deployment: tuple and Active.Info still show that one
C24_Witness ==
    \E t \in Tasks :
       /\ tpc[t] = "idle"
       /\ tret[t].op = "configure"
       /\ tret[t].err = "versionErr"
       /\ \A u \in Tasks : tpc[u] = "idle"
       /\ fireflyContract # EmptyTuple
       /\ contracts.Active.Info =
             Info(fireflyContract.chaincode, fireflyContract.fromBlock,
                  fireflyContract.subscription)

(***************************************************************************)
(* C25: an index outside the configured deployments fails at once.         *)
(***************************************************************************)
\* task t returns err from the resolution, no request having been made
RejectedAtOnce(t, err) ==
    /\ tpc'[t] = "idle"
    /\ tret'[t].err = err
    /\ apiCalls' = apiCalls
\* task t goes on to the subscription with the deployment resolved
ResolvedTo(t, chaincode, fromBlock) ==
    /\ tpc'[t] = "ensureSub"
    /\ tloc'[t].chaincode = chaincode
    /\ tloc'[t].fromBlock = fromBlock

\* C25: with n array slots configured an index >= n is rejected as an
\* invalid index; with only the legacy setting index 0 resolves to it and
\* an index > 0 is rejected as invalid; a slot without a chaincode is
\* rejected as missing configuration; each rejection comes before any
\* request to the connector, and an index that names a slot resolves to it
C25_IndexOutOfRange ==
    [][\A t \in Tasks :
          tpc[t] = "resolve" /\ tpc'[t] # "resolve"
            => LET i == contracts.Active.Index
                   n == conf.size
               IN  /\ n > 0 /\ i >= n => RejectedAtOnce(t, "invalidIndex")
                   /\ n = 0 /\ i > 0 => RejectedAtOnce(t, "invalidIndex")
                   /\ n = 0 /\ i = 0 /\ conf.deprecated # ""
                        => ResolvedTo(t, conf.deprecated, "oldest")
                   /\ n > 0 /\ i < n
                        => IF conf.slots[i + 1].chaincode = ""
                           THEN RejectedAtOnce(t, "missingConfig")
                           ELSE ResolvedTo(t, conf.slots[i + 1].chaincode,
                                           conf.slots[i + 1].fromBlock)]_vars

\* the legacy deployment has been terminated and index 1 was rejected
C25_Witness ==
    \E t \in Tasks :
       /\ conf = ConfDeprecated
       /\ contracts.Active.Index = 1
       /\ tpc[t] = "idle"
       /\ tret[t].err = "invalidIndex"
       /\ fireflyContract.chaincode = "cc0"
\* both array slots have been used and index 2 was rejected
C25_WitnessArray ==
    \E t \in Tasks :
       /\ conf = ConfTwo
       /\ contracts.Active.Index = 2
       /\ tpc[t] = "idle"
       /\ tret[t].err = "invalidIndex"
\* the second slot names no chaincode and was rejected
C25_WitnessEmptySlot ==
    \E t \in Tasks :
       /\ conf = ConfEmptySlot
       /\ contracts.Active.Index = 1
       /\ tpc[t] = "idle"
       /\ tret[t].err = "missingConfig"

(***************************************************************************)
(* C26: the order of the two deferred closes.                              *)
(***************************************************************************)
\* C26: once the closed channel is signalled the transport is closed
\* already, by the loop's wsconn.Close() or by the transport having closed
\* its receive channel itself
C26_TransportClosedFirst ==
    closedCh = "closed" => wsconn \in {"closed", "recvClosed"}

\* the loop has returned on a callback error or a failed ack and has
\* signalled closed; the context is not cancelled and the connection is up
C26_ClosedSignalledFirst ==
    /\ pc = "deferWsClose"
    /\ closedCh = "closed"
    /\ wsconn = "connected"
    /\ ~ctxDone

(***************************************************************************)
(* C27: the tuple is published as a whole.                                 *)
(***************************************************************************)
\* the tuples a successful ConfigureContract produces for a deployment
Published ==
    {Tuple(conf.slots[i].chaincode, conf.slots[i].fromBlock,
           IF VersionOutcomeFor(conf.slots[i].chaincode) = "notfound" THEN 1 ELSE 2,
           SubFor(conf.slots[i].chaincode)) : i \in 1..conf.size}
\* positions between Lock and Unlock of the write
AssignPositions == {"confWrite", "confFromBlock", "confVersion", "confSub",
                    "confUnlock"}
Writers == {t \in Tasks : tpc[t] \in AssignPositions}

C27_WitnessMidWrite ==
    \E t \in Writers :
       /\ mux = t
       /\ fireflyContract.chaincode = "cc1"
       /\ fireflyContract.subscription = Sub0

(***************************************************************************)
(* C28: cancellation and the batch in hand.                                *)
(***************************************************************************)
\* the loop is between receiving a frame and its next select
MidFrame == pc \in {"batch", "route", "callback", "ack", "continue"}

\* the loop leaves a frame in hand for its exit only on a callback error or
\* a failed ack, cancelled context or not: the context is looked at in the
\* select alone
CancelOnlyAtSelect ==
    [][MidFrame /\ pc' = "deferClose"
          => \/ pc = "callback" /\ batchErr' = "err"
             \/ pc = "ack" /\ ~sent'[Len(sent')].ok]_vars

\* C28: a cancellation that arrives while a batch is being handled does not
\* interrupt it, and handleMessageBatch returns nil only after every
\* message of the batch has been routed
C28_BatchRunsToEnd ==
    /\ CancelOnlyAtSelect
    /\ [][ctxDone /\ pc = "batch" /\ pc' = "ack" => idx > Len(cur.msgs)]_vars

\* the same for batches of JSON objects only
C28_ObjectBatchRunsToEnd ==
    /\ CancelOnlyAtSelect
    /\ [][(/\ ctxDone
           /\ pc = "batch"
           /\ pc' = "ack"
           /\ \A k \in 1..Len(cur.msgs) : Msg(cur.msgs[k]).obj)
            => idx > Len(cur.msgs)]_vars

\* the context was cancelled during a batch whose first entry is not an
\* object: the batch is about to be acked, its second message never routed
C28_RestDropped ==
    /\ ctxDone
    /\ pc = "ack"
    /\ Len(cur.msgs) = 2
    /\ ~Msg(cur.msgs[1]).obj
    /\ cur.msgs[2] = "pin"
    /\ idx = 1
    /\ calls = <<>>

(***************************************************************************)
(* C29: the network version ConfigureContract publishes.                   *)
(***************************************************************************)
\* the answer is an error that reports the NetworkVersion function missing
ReportsNotFound(answer) ==
    /\ answer.kind # "ok"
    /\ \E i \in 1..Len(answer.text) :
          /\ i + 3 <= Len(answer.text)
          /\ answer.text[i] = "Function"
          /\ answer.text[i + 1] = "NetworkVersion"
          /\ answer.text[i + 2] = "not"
          /\ answer.text[i + 3] = "found"
\* task t goes on to publish version v / returns the query's error
GoesOnWith(t, v) == tpc'[t] = "confLock" /\ tloc'[t].version = v
FailsOnVersion(t) ==
    /\ tpc'[t] = "idle"
    /\ tret'[t].err = "versionErr"
    /\ fireflyContract' = fireflyContract
    /\ contracts' = contracts

\* C29: at the version query a not-found answer makes the call go on with
\* version 1, a successful answer with the number it reports, and any other
\* error (the body of a success that is not JSON included) makes the call
\* return that error; the version the call goes on with is the one it
\* publishes in the tuple
C29_NetworkVersionQuery ==
    /\ [][\A t \in Tasks :
            tpc[t] = "version" /\ tpc'[t] # "version"
              => LET answer == fnIn'.answer
                 IN  /\ ReportsNotFound(answer) => GoesOnWith(t, 1)
                     /\ answer.kind = "ok" /\ answer.body = "number"
                          => GoesOnWith(t, answer.result)
                     /\ answer.kind # "ok" /\ ~ReportsNotFound(answer)
                          => FailsOnVersion(t)
                     /\ answer.kind = "ok" /\ answer.body = "badjson"
                          => FailsOnVersion(t)]_vars
    /\ [][\A t \in Tasks :
            tpc[t] = "confWrite" /\ tpc'[t] # "confWrite"
              => fireflyContract'.networkVersion = tloc[t].version]_vars
    /\ [](\A t \in Tasks :
            tpc[t] = "confInfo" => fireflyContract.networkVersion = tloc[t].version)

\* the second deployment has been published with the version it reported,
\* after the first, which has no NetworkVersion function, got version 1
C29_Witness ==
    /\ fnIn.fn = "getNetworkVersion"
    /\ fnIn.answer.kind = "ok"
    /\ fnIn.answer.result = 3
    /\ fireflyContract.chaincode = "cc1"
    /\ fireflyContract.networkVersion = 3
    /\ tret["t1"].op = "terminate"
    /\ tret["t1"].err = "nil"
\* the version defaulted to 1 on a not-found text inside a longer error
C29_WitnessNotFound ==
    /\ fnIn.fn = "getNetworkVersion"
    /\ fnIn.answer.kind = "status500"
    /\ Len(fnIn.answer.text) > 4
    /\ fireflyContract.networkVersion = 1
    /\ tret["t1"].err = "nil"
    /\ tret["t1"].count = 1
\* another error failed the call and nothing was published
C29_WitnessError ==
    /\ fnIn.fn = "getNetworkVersion"
    /\ fnIn.answer.text = <<"Function", "Other", "not", "found">>
    /\ tret["t1"].err = "versionErr"
    /\ fireflyContract = EmptyTuple

(***************************************************************************)
(* C30: an event of another name on the active subscription.               *)
(***************************************************************************)
\* position i holds a message on the active subscription that is not a
\* BatchPin event
OtherName(i) ==
    /\ i \in Positions
    /\ MsgAt(i).obj
    /\ MsgAt(i).subId = ActiveSub
    /\ MsgAt(i).eventName # broadcastBatchEventName

\* C30: no callback is ever invoked for a message on the active
\* subscription whose event name is not BatchPin; routing it invokes
\* nothing, sets no error and moves the range loop to the next message; and
\* when handleMessageBatch has returned nil the loop sends the ack
C30_OtherNameIgnored ==
    /\ [](\A i \in Positions : OtherName(i) => CallsAt(i) = {})
    /\ [][pc = "route" /\ pc' # "route" /\ OtherName(idx)
            => /\ pc' = "batch"
               /\ idx' = idx + 1
               /\ calls' = calls
               /\ lastCall' = lastCall
               /\ batchErr' = batchErr
               /\ cur' = cur]_vars
    /\ [][pc = "ack" /\ pc' # "ack"
            => /\ Len(sent') = Len(sent) + 1
               /\ sent'[Len(sent')].type = "ack"
               /\ sent'[Len(sent')].topic = topic]_vars

\* the batch [Other, BatchPin] on the active subscription has been handled:
\* one callback, for the second message, and the batch is acked
C30_Witness ==
    /\ Bound0
    /\ listeners # <<>>
    /\ cur.msgs = <<"unknown", "pin">>
    /\ OtherName(1)
    /\ pc = "continue"
    /\ Len(calls) = 1
    /\ calls[1].idx = 2
    /\ calls[1].kind = "BatchPinComplete"
    /\ calls[1].res = "nil"
    /\ Len(sent) = 1
    /\ sent[1].ok

(***************************************************************************)
(* Init with every way it can fail, and a host that goes on to register    *)
(* its listener and to start the plugin whatever Init returned.            *)
(***************************************************************************)
NextInit ==
    \/ \E url \in {"", "http://fabconnect"}, tp \in {"", "topic1"},
          wsFails \in BOOLEAN, streamFails \in BOOLEAN :
          PluginInit(url, tp, wsFails, streamFails)
    \/ RegisterListener
    \/ \E connectOK \in BOOLEAN, listenOK \in BOOLEAN, repliesOK \in BOOLEAN :
          Start(connectOK, listenOK, repliesOK)
    \/ \E connectOK \in BOOLEAN, listenOK \in BOOLEAN, repliesOK \in BOOLEAN :
          StartAfterFailedInit(connectOK, listenOK, repliesOK)
    \/ CancelCtx
    \/ LoopCtxDone
    \/ \E f \in ShutdownFrames : LoopReceive(f)
    \/ LoopRouteLock
    \/ LoopMessage
    \/ \E answers \in Answers : LoopCallbackReturn(answers)
    \/ \E sendOK \in BOOLEAN : LoopAck(sendOK)
    \/ LoopContinue
    \/ LoopDeferClose
    \/ LoopDeferWsClose

SpecInit == Init /\ [][NextInit]_vars

(***************************************************************************)
(* Termination while the stream is being read: deployment cc0 is bound to  *)
(* its subscription, the loop reads batches of that subscription, and the  *)
(* host answers with TerminateContract, which binds deployment cc1.        *)
(***************************************************************************)
HandoffFrames ==
    {Frame("batch", <<"action", "pin">>, "", ""),
     Frame("batch", <<"pin", "action">>, "", "")}

\* the plugin after Init, ConfigureContract (deployment cc0 on Sub0, no
\* NetworkVersion function), RegisterListener and Start, the transport
\* connected
InitHandoff ==
    /\ conf = ConfTwo
    /\ inited = "ok"
    /\ topic = "topic1"
    /\ wsconn = "connected"
    /\ closedCh = "open"
    /\ started = TRUE
    /\ ctxDone = FALSE
    /\ listeners = <<"l1">>
    /\ pc = "select"
    /\ rcvCount = 0
    /\ cur = NoFrame
    /\ idx = 0
    /\ batchErr = "none"
    /\ calls = <<>>
    /\ lastCall = <<0, 0>>
    /\ connSent = afterConnect("topic1", TRUE, TRUE).sends
    /\ sent = <<>>
    /\ fireflyContract = Tuple("cc0", "0", 1, SubFor("cc0"))
    /\ mux = "free"
    /\ contracts = [Active |-> ContractInfo(0, Info("cc0", "0", SubFor("cc0")), ""),
                    Terminated |-> <<>>]
    /\ tpc = [t \in Tasks |-> "idle"]
    /\ tloc = [t \in Tasks |-> NoLocals]
    /\ tret = [t \in Tasks |-> NoReturn]
    /\ apiCalls = 3
    /\ connector = EmptyConnector
    /\ fnIn = NoCall
    /\ fnOut = NoResult

\* the host's TerminateContract (from the network action callback or from
\* anywhere else) and ConfigureContract, one call at a time, next to the
\* event loop
NextHandoff ==
    \/ CallConfigureContract("t1")
    \/ CallTerminateContract("t1", TermEvent("cc0", "p1"))
    \/ TerminateLock("t1")
    \/ TerminateRead("t1")
    \/ TerminateCheck("t1")
    \/ TerminateRecord("t1")
    \/ ConfigureResolve("t1")
    \/ \E ok \in BOOLEAN : ConfigureEnsureSub("t1", ok, SubFor(tloc["t1"].chaincode))
    \/ \E outcome \in {"ok", "err"} : ConfigureVersion("t1", outcome, 2)
    \/ ConfigureLock("t1")
    \/ ConfigureWrite("t1")
    \/ ConfigureInfo("t1")
    \/ \E f \in HandoffFrames : LoopReceive(f)
    \/ LoopRouteLock
    \/ LoopMessage
    \/ \E answers \in Answers : LoopCallbackReturn(answers)
    \/ \E sendOK \in BOOLEAN : LoopAck(sendOK)
    \/ LoopContinue
    \/ LoopDeferClose
    \/ LoopDeferWsClose

SpecHandoff == InitHandoff /\ [][NextHandoff]_vars

(***************************************************************************)
(* C31: a failed ack ends the event loop.                                  *)
(***************************************************************************)
\* the loop has left its for loop and runs, or has run, its deferred calls
Exiting == pc \in {"deferClose", "deferWsClose", "exited"}

\* C31: when the send of the ack fails the loop leaves for its exit instead
\* of the next select; a loop on its way out receives no further frame and
\* starts no callback, and it goes on to close the closed channel and the
\* transport
C31_FailedAckExits ==
    /\ [][pc = "ack" /\ pc' # "ack"
            => IF sent'[Len(sent')].ok THEN pc' = "continue"
                                       ELSE pc' = "deferClose"]_vars
    /\ [][Exiting => /\ Exiting'
                     /\ rcvCount' = rcvCount
                     /\ lastCall' = lastCall
                     /\ calls' = calls \/ calls' = <<>>
                     /\ sent' = sent \/ sent' = <<>>]_vars
    /\ (pc = "deferClose") ~> ShutDown

\* the ack of a batch could not be sent and the loop is leaving, with the
\* connection up, the context not cancelled and frames still to come
C31_Witness ==
    /\ pc = "deferClose"
    /\ sent # <<>>
    /\ ~sent[Len(sent)].ok
    /\ batchErr = "nil"
    /\ wsconn = "connected"
    /\ ~ctxDone
    /\ rcvCount < MaxFrames

(***************************************************************************)
(* C32: the network-action round trip.                                     *)
(***************************************************************************)
\* 0x and sixty-four zeros
ZeroHashText ==
    <<"0", "x">> \o [i \in 1..64 |-> "0"]

\* C32: the pin SubmitNetworkAction submits has the namespace firefly:
\* followed by the action, the all-zero 32-byte value as uuids and as
\* batchHash, an empty payloadRef and no contexts; arriving as a BatchPin
\* event on the active subscription it is delivered to
\* BlockchainNetworkAction with that action name, not to BatchPinComplete
C32_ActionRoundTrip ==
    (fnIn.fn = "SubmitNetworkAction" /\ fnOut.done) =>
        /\ fnOut.input.namespace = <<"f", "i", "r", "e", "f", "l", "y", ":">> \o fnIn.action
        /\ fnOut.input.uuids = ZeroHashText
        /\ fnOut.input.batchHash = ZeroHashText
        /\ Bytes32UnmarshalText(fnOut.input.uuids).ok
        /\ Bytes32UnmarshalText(fnOut.input.uuids).bytes = [i \in 1..32 |-> 0]
        /\ fnOut.input.payloadRef = ""
        /\ fnOut.input.contexts = <<>>
        /\ fnOut.event.dispatch
        /\ fnOut.event.kind = "BlockchainNetworkAction"
        /\ fnOut.event.arg.action = fnIn.action

\* the action "e:t", whose name holds the separator, has made the round trip
C32_Witness ==
    /\ fnIn.fn = "SubmitNetworkAction"
    /\ fnIn.action = <<"e", ":", "t">>
    /\ fnOut.done
    /\ fnOut.event.kind = "BlockchainNetworkAction"
    /\ fnOut.event.arg.action = <<"e", ":", "t">>
\* the empty action name has made the round trip
C32_WitnessEmpty ==
    /\ fnIn.fn = "SubmitNetworkAction"
    /\ fnIn.action = <<>>
    /\ fnOut.done
    /\ fnOut.event.kind = "BlockchainNetworkAction"

(***************************************************************************)
(* C33: the hand-off of the stream at a termination.                       *)
(***************************************************************************)
\* the subscriptions of the deployments that were terminated
TerminatedSubs ==
    {contracts.Terminated[k].Info.subscription : k \in 1..Len(contracts.Terminated)}
\* TerminateContract has bound a subscription with another ID
HandedOff ==
    /\ TerminatedSubs # {}
    /\ fireflyContract.subscription \notin TerminatedSubs
BatchPinKinds == {"BatchPinComplete", "BlockchainNetworkAction"}

\* C33: once TerminateContract has bound a subscription with another ID, the
\* routing of a message that carries a terminated subscription's ID starts
\* no BatchPinComplete and no BlockchainNetworkAction callback: it starts the
\* BlockchainEvent callback, for the later messages of the batch in which the
\* termination was asked for as well
C33_HandoffInStream ==
    [][(pc = "route" /\ pc' # "route" /\ HandedOff
          /\ MsgAt(idx).subId \in TerminatedSubs)
       => /\ Len(calls') = Len(calls) + 1
          /\ calls'[Len(calls')].idx = idx
          /\ calls'[Len(calls')].kind = "BlockchainEvent"
          /\ calls'[Len(calls')].kind \notin BatchPinKinds]_vars

\* the network action of a batch was delivered, the termination went through
\* and the pin that follows it in the batch went to BlockchainEvent
C33_Witness ==
    /\ HandedOff
    /\ fireflyContract.subscription = Sub1
    /\ tret["t1"].err = "nil"
    /\ cur.msgs = <<"action", "pin">>
    /\ Len(calls) = 2
    /\ calls[1].kind = "BlockchainNetworkAction"
    /\ calls[1].idx = 1
    /\ calls[2].kind = "BlockchainEvent"
    /\ calls[2].idx = 2
    /\ MsgAt(2).subId = Sub0


(***************************************************************************)
(* C34: a TerminateContract that fails, and the contracts record.          *)
(***************************************************************************)
\* the record the host holds when deployment cc0 is bound and nothing has
\* been terminated
BoundRecord ==
    [Active |-> ContractInfo(0, Info("cc0", "0", SubFor("cc0")), ""),
     Terminated |-> <<>>]
\* the first TerminateContract of the host has returned an error
FirstTerminateFailed ==
    /\ tpc["t1"] = "idle"
    /\ tret["t1"].op = "terminate"
    /\ tret["t1"].count = 1
    /\ tret["t1"].err \notin {"nil", "none"}

\* C34: when a TerminateContract whose event matches the active deployment
\* returns an error, contracts.Active and contracts.Terminated are what they
\* were before the call
C34_FailedTerminateAtomic == FirstTerminateFailed => contracts = BoundRecord

\* the subscription request of the next deployment failed: the call has
\* returned the error and the record shows deployment cc0 terminated and an
\* Active record of index 1 without Info, while the tuple is still cc0's
C34_RecordChanged ==
    /\ FirstTerminateFailed
    /\ tret["t1"].err = "subErr"
    /\ Len(contracts.Terminated) = 1
    /\ contracts.Terminated[1].FinalEvent = "p1"
    /\ contracts.Active = ContractInfo(1, NoInfo, "")
    /\ fireflyContract = Tuple("cc0", "0", 1, SubFor("cc0"))


(***************************************************************************)
(* C35: the contracts record and the runtime tuple.                        *)
(***************************************************************************)
\* the Info records of the deployments the connector can bind
BoundInfos ==
    {Info(conf.slots[i].chaincode, conf.slots[i].fromBlock,
          SubFor(conf.slots[i].chaincode)) : i \in 1..conf.size}

\* C35: between the calls of a host that makes them one after the other, a
\* non-empty runtime tuple has the chaincode and the subscription of
\* contracts.Active.Info, and every Terminated entry has the Info of a
\* deployment that was bound
C35_RecordAgreesWithTuple ==
    tpc["t1"] = "idle"
       => /\ fireflyContract # EmptyTuple
                => /\ contracts.Active.Info.chaincode = fireflyContract.chaincode
                   /\ contracts.Active.Info.subscription
                          = fireflyContract.subscription
          /\ \A k \in 1..Len(contracts.Terminated) :
                contracts.Terminated[k].Info \in BoundInfos

\* two TerminateContract calls with the same event, the subscription request
\* failing in the first: the same event was accepted twice, the second
\* Terminated entry has no Info and the tuple is still that of cc0
C35_TerminatedWithoutInfo ==
    /\ tpc["t1"] = "idle"
    /\ tret["t1"].op = "terminate"
    /\ tret["t1"].count = 2
    /\ Len(contracts.Terminated) = 2
    /\ contracts.Terminated[2].Info = NoInfo
    /\ contracts.Active.Index = 2
    /\ fireflyContract.chaincode = "cc0"


(***************************************************************************)
(* C36: messages that arrive before any deployment is bound.               *)
(***************************************************************************)
\* C36: while the subscription of the runtime tuple is empty, no
\* BatchPinComplete and no BlockchainNetworkAction callback is made,
\* whatever the subscription ID of the message
C36_NoBatchPinBeforeConfigure ==
    fireflyContract.subscription = ""
       => \A k \in 1..Len(calls) : calls[k].kind \notin BatchPinKinds

\* no ConfigureContract was made, and a BatchPin event without subId is in
\* the hands of the listener as a batch pin
C36_UnboundPinDelivered ==
    /\ fireflyContract = EmptyTuple
    /\ contracts = NewContracts
    /\ pc = "callback"
    /\ MsgAt(idx).subId = ""
    /\ calls[Len(calls)].kind = "BatchPinComplete"
    /\ calls[Len(calls)].idx = idx


(***************************************************************************)
(* C37: an Init that returns an error has started nothing.                 *)
(***************************************************************************)
\* C37: after Init returned an error there is no event loop, the closed
\* channel does not exist, no frame has been received and no callback or
\* ack has been made, whatever the host does next
C37_FailedInitStartsNoLoop ==
    inited = "err"
       => /\ pc = "none"
          /\ closedCh = "nil"
          /\ rcvCount = 0
          /\ cur = NoFrame
          /\ calls = <<>>
          /\ sent = <<>>

\* the event stream could not be ensured; the host registered a listener
\* and started the plugin all the same, the transport is connected and
\* has frames to deliver
C37_Witness ==
    /\ inited = "err"
    /\ wsconn = "connected"
    /\ started
    /\ listeners # <<>>
    /\ apiCalls = 1

\* the url is missing: no websocket client and no request to the connector
C37_WitnessMissingURL ==
    /\ inited = "err"
    /\ wsconn = "nil"
    /\ apiCalls = 0
    /\ listeners # <<>>


(***************************************************************************)
(* C38: an operator action is recognised before the fields are decoded.    *)
(***************************************************************************)
\* the three fields of a data batch decode
UUIDsDecode(o) ==
    /\ HexDecodeString(TrimPrefix(o.uuids, <<"0", "x">>)).ok
    /\ Len(HexDecodeString(TrimPrefix(o.uuids, <<"0", "x">>)).bytes) = Bytes32Len
HashDecodes(o) == Bytes32UnmarshalText(o.batchHash).ok
ContextsDecode(o) ==
    \A i \in 1..Len(o.contexts) : Bytes32UnmarshalText(o.contexts[i]).ok
FieldsDecode(o) == UUIDsDecode(o) /\ HashDecodes(o) /\ ContextsDecode(o)

\* C38: a BatchPin event of the active subscription whose namespace starts
\* with firefly: is dispatched to BlockchainNetworkAction with the rest of
\* the namespace as the action, whether or not its uuids, batchHash and
\* contexts decode; any other event is dispatched, to BatchPinComplete,
\* exactly when all three decode
C38_ActionBeforeDecoding ==
    (fnIn.fn = "handleBatchPinEvent" /\ fnOut.done) =>
        IF HasPrefix(fnIn.output.namespace, FireFlyActionPrefix)
        THEN /\ fnOut.event.dispatch
             /\ fnOut.event.kind = "BlockchainNetworkAction"
             /\ FireFlyActionPrefix \o fnOut.event.arg.action = fnIn.output.namespace
        ELSE /\ fnOut.event.dispatch <=> FieldsDecode(fnIn.output)
             /\ fnOut.event.dispatch => fnOut.event.kind = "BatchPinComplete"

\* the action "term" was delivered although none of the three fields of
\* its event decodes
C38_Witness ==
    /\ fnIn.fn = "handleBatchPinEvent"
    /\ fnOut.done
    /\ fnIn.output.namespace = NsAction
    /\ ~UUIDsDecode(fnIn.output)
    /\ ~HashDecodes(fnIn.output)
    /\ ~ContextsDecode(fnIn.output)
    /\ fnOut.event.kind = "BlockchainNetworkAction"
    /\ fnOut.event.arg.action = <<"t", "e", "r", "m">>

\* a data batch with a malformed context was dropped
C38_WitnessDataDropped ==
    /\ fnIn.fn = "handleBatchPinEvent"
    /\ fnOut.done
    /\ fnIn.output.namespace = NsData
    /\ UUIDsDecode(fnIn.output)
    /\ HashDecodes(fnIn.output)
    /\ ~ContextsDecode(fnIn.output)
    /\ ~fnOut.event.dispatch

=============================================================================
